---- MODULE Spec2Model ----
(***************************************************************************)
(* Dialogue orchestration engine of the travel-agency chat assistant:      *)
(* intent continuation, slot filling, entity merging (intentRouter.js,     *)
(* entityExtractor.js, faqRetriever.js) and the human-handoff scheduler    *)
(* (humanHandoffService.js, workingHoursService, scheduledTasks,           *)
(* lineHandler, routes/agent.js).                                          *)
(*                                                                         *)
(* A message is a sequence of one-character strings, so that the regular   *)
(* expressions of the source are evaluated on the text itself; a character *)
(* outside ASCII is written as the token "uXXXX" of its code point.  Time  *)
(* is counted in whole minutes since a Sunday 00:00 in the region's        *)
(* timezone.  The specifications at the end are scenarios over the same    *)
(* actions: the router driven directly, the LINE channel, the agent queue  *)
(* and the off-hours sweep.                                                *)
(***************************************************************************)
EXTENDS Integers, Sequences, FiniteSets, TLC

(***************************************************************************)
(* Text helpers (JavaScript string and RegExp primitives).                 *)
(***************************************************************************)
Digits == {"0", "1", "2", "3", "4", "5", "6", "7", "8", "9"}

UpperLetters ==
  {"A", "B", "C", "D", "E", "F", "G", "H", "I", "J", "K", "L", "M",
   "N", "O", "P", "Q", "R", "S", "T", "U", "V", "W", "X", "Y", "Z"}

LowerLetters ==
  {"a", "b", "c", "d", "e", "f", "g", "h", "i", "j", "k", "l", "m",
   "n", "o", "p", "q", "r", "s", "t", "u", "v", "w", "x", "y", "z"}

UpperOf ==
  [c \in LowerLetters |->
     CASE c = "a" -> "A" [] c = "b" -> "B" [] c = "c" -> "C" [] c = "d" -> "D"
       [] c = "e" -> "E" [] c = "f" -> "F" [] c = "g" -> "G" [] c = "h" -> "H"
       [] c = "i" -> "I" [] c = "j" -> "J" [] c = "k" -> "K" [] c = "l" -> "L"
       [] c = "m" -> "M" [] c = "n" -> "N" [] c = "o" -> "O" [] c = "p" -> "P"
       [] c = "q" -> "Q" [] c = "r" -> "R" [] c = "s" -> "S" [] c = "t" -> "T"
       [] c = "u" -> "U" [] c = "v" -> "V" [] c = "w" -> "W" [] c = "x" -> "X"
       [] c = "y" -> "Y" [] OTHER -> "Z"]

LowerOf ==
  [c \in UpperLetters |-> CHOOSE l \in LowerLetters : UpperOf[l] = c]

\* String.prototype.toUpperCase / toLowerCase
toUpperCase(s) ==
  [i \in 1..Len(s) |-> IF s[i] \in LowerLetters THEN UpperOf[s[i]] ELSE s[i]]

toLowerCase(s) ==
  [i \in 1..Len(s) |-> IF s[i] \in UpperLetters THEN LowerOf[s[i]] ELSE s[i]]

\* \w of a RegExp
WordChars == Digits \cup UpperLetters \cup LowerLetters \cup {"_"}

\* \s of a RegExp, as far as the modelled texts contain it
SpaceChars == {" "}

\* String.prototype.trim
RECURSIVE trim(_)
trim(s) ==
  IF s = <<>> THEN s
  ELSE IF Head(s) \in SpaceChars THEN trim(Tail(s))
  ELSE IF s[Len(s)] \in SpaceChars THEN trim(SubSeq(s, 1, Len(s) - 1))
  ELSE s

\* sub occurs in s at position i
OccursAt(s, sub, i) ==
  /\ i >= 1
  /\ i + Len(sub) - 1 <= Len(s)
  /\ \A k \in 1..Len(sub) : s[i + k - 1] = sub[k]

\* String.prototype.includes
includes(s, sub) == \E i \in 1..(Len(s) + 1) : OccursAt(s, sub, i)

\* /^sub/.test(s)
startsWith(s, sub) == OccursAt(s, sub, 1)

\* s[i..j] consists of characters of cls only
AllIn(s, i, j, cls) == \A k \in i..j : s[k] \in cls

\* A pattern is a sequence of atoms.  A character atom takes between lo and
\* hi characters of the class cls, as many as possible (greedy, with
\* backtracking); the other atoms are the zero-width assertions $, \b,
\* (?!cls) and (?<!cls).
Atom(cls, lo, hi) == [kind |-> "chars", cls |-> cls, lo |-> lo, hi |-> hi]

Lit(c) == Atom({c}, 1, 1)

AtEnd == [kind |-> "end", cls |-> {}, lo |-> 0, hi |-> 0]

WordBoundary == [kind |-> "boundary", cls |-> WordChars, lo |-> 0, hi |-> 0]

NotAhead(cls) == [kind |-> "notahead", cls |-> cls, lo |-> 0, hi |-> 0]

NotBehind(cls) == [kind |-> "notbehind", cls |-> cls, lo |-> 0, hi |-> 0]

\* (?!text)
NotAheadText(text) == [kind |-> "notaheadtext", cls |-> text, lo |-> 0, hi |-> 0]

\* the zero-width assertion a holds in s before position i
Asserts(s, i, a) ==
  CASE a.kind = "end" -> i = Len(s) + 1
    [] a.kind = "boundary" ->
         (i > 1 /\ s[i - 1] \in a.cls) # (i <= Len(s) /\ s[i] \in a.cls)
    [] a.kind = "notahead" -> i > Len(s) \/ s[i] \notin a.cls
    [] a.kind = "notaheadtext" -> ~ OccursAt(s, a.cls, i)
    [] OTHER -> i = 1 \/ s[i - 1] \notin a.cls

Max(S) == CHOOSE x \in S : \A y \in S : y <= x

Min(S) == CHOOSE x \in S : \A y \in S : x <= y

\* the number of characters of s that pat[j..] matches from position i, the
\* way RegExp.prototype.exec matches at a fixed start; -1 when it fails
RECURSIVE MatchLen(_, _, _, _), MatchTaking(_, _, _, _, _)
MatchLen(s, i, pat, j) ==
  IF j > Len(pat) THEN 0
  ELSE IF pat[j].kind # "chars"
  THEN IF Asserts(s, i, pat[j]) THEN MatchLen(s, i, pat, j + 1) ELSE -1
  ELSE MatchTaking(s, i, pat, j, pat[j].hi)

\* the same with the atom pat[j] taking at most n characters: the longest
\* run first, shorter ones when the rest of the pattern fails (backtracking)
MatchTaking(s, i, pat, j, n) ==
  IF n < pat[j].lo THEN -1
  ELSE LET rest == IF i + n - 1 <= Len(s)
                        /\ AllIn(s, i, i + n - 1, pat[j].cls)
                   THEN MatchLen(s, i + n, pat, j + 1) ELSE -1
       IN IF rest >= 0 THEN n + rest ELSE MatchTaking(s, i, pat, j, n - 1)

\* /^pat$/.test(s)
FullMatch(s, pat) == MatchLen(s, 1, pat \o <<AtEnd>>, 1) >= 0

\* the start positions of the successive matches of a global (/g) RegExp:
\* leftmost first, the search resuming after each match
RECURSIVE MatchStarts(_, _, _)
MatchStarts(s, pat, p) ==
  IF p > Len(s) THEN <<>>
  ELSE IF MatchLen(s, p, pat, 1) > 0
  THEN <<p>> \o MatchStarts(s, pat, p + MatchLen(s, p, pat, 1))
  ELSE MatchStarts(s, pat, p + 1)

\* the text of the match of pat that starts at position i
MatchText(s, pat, i) == SubSeq(s, i, i + MatchLen(s, i, pat, 1) - 1)

\* the elements of a sequence
Range(s) == {s[i] : i \in 1..Len(s)}

\* a one-element array when the condition holds (a conditional push)
PushIf(cond, x) == IF cond THEN <<x>> ELSE <<>>

\* Array.prototype.filter
RECURSIVE filter(_, _)
filter(s, keep) ==
  IF s = <<>> THEN <<>>
  ELSE PushIf(Head(s) \in keep, Head(s)) \o filter(Tail(s), keep)
(***************************************************************************)
(* intentRouter.js: continuation detection.                                *)
(***************************************************************************)
\* the city list of detectInfoProviding
DetectDestinations ==
  { <<"u6771", "u4eac">>, <<"u5927", "u962a">>, <<"u9996", "u723e">>, <<"u66fc", "u8c37">>,
    <<"u65b0", "u52a0", "u5761">>, <<"u9999", "u6e2f">>, <<"u6fb3", "u9580">>, <<"u4e0a", "u6d77">>,
    <<"u5317", "u4eac">>, <<"u5409", "u9686", "u5761">>, <<"u80e1", "u5fd7", "u660e">>,
    <<"u6cb3", "u5167">>, <<"u5cc7", "u91cc", "u5cf6">>, <<"u666e", "u5409", "u5cf6">>,
    <<"u6c96", "u7e69">>, <<"u798f", "u5ca1">>, <<"u540d", "u53e4", "u5c4b">>, <<"u91dc", "u5c71">>,
    <<"u6fdf", "u5dde">> }

\* /^(u660eu5929|u5f8cu5929|u4e0bu9031|u4e0bu500bu6708|u5927u5f8cu5929)/
RelativeDayPrefixes ==
  { <<"u660e", "u5929">>, <<"u5f8c", "u5929">>, <<"u4e0b", "u9031">>, <<"u4e0b", "u500b", "u6708">>,
    <<"u5927", "u5f8c", "u5929">> }

ChineseNumerals == {"u4e00", "u4e8c", "u4e09", "u56db", "u4e94", "u516d", "u4e03", "u516b", "u4e5d", "u5341"}

\* /^(u597d|u597du7684|OK|u53efu4ee5|u5c0d|u6c92u554fu984c|u662fu7684|u55ef|u78bau8a8d|u78bau5b9a|u6c92u932f|u5c0du7684|u6b63u78ba)$/i
ConfirmationWords ==
  { <<"u597d">>, <<"u597d", "u7684">>, <<"O", "K">>, <<"u53ef", "u4ee5">>, <<"u5c0d">>,
    <<"u6c92", "u554f", "u984c">>, <<"u662f", "u7684">>, <<"u55ef">>, <<"u78ba", "u8a8d">>,
    <<"u78ba", "u5b9a">>, <<"u6c92", "u932f">>, <<"u5c0d", "u7684">>, <<"u6b63", "u78ba">> }

DetectsDate(msg) ==
  \/ FullMatch(msg, <<Atom(Digits, 1, 2), Lit("/"), Atom(Digits, 1, 2)>>)
  \/ FullMatch(msg, <<Atom(Digits, 4, 4), Lit("/"), Atom(Digits, 1, 2),
                      Lit("/"), Atom(Digits, 1, 2)>>)
  \/ \E p \in RelativeDayPrefixes : startsWith(msg, p)
  \/ FullMatch(msg, <<Atom(Digits, 1, 2), Lit("u6708"), Atom(Digits, 1, 2),
                      Atom({"u65e5", "u865f"}, 0, 1)>>)

DetectsDestination(msg) ==
  \/ \E d \in DetectDestinations : includes(msg, d)
  \/ FullMatch(msg, <<Atom(UpperLetters, 3, 3)>>)

DetectsPassengers(msg) ==
  \/ FullMatch(msg, <<Atom(Digits \ {"0"}, 1, 1), Atom({"u4f4d"}, 0, 1)>>)
  \/ FullMatch(msg, <<Atom(ChineseNumerals, 1, 1), Lit("u4f4d")>>)
  \/ FullMatch(msg, <<Atom(Digits, 1, Len(msg)), Lit("u500b"), Lit("u4eba")>>)

DetectsFlightNo(msg) ==
  FullMatch(toUpperCase(msg), <<Atom(UpperLetters, 2, 2), Atom(Digits, 2, 4)>>)

DetectsBookingRef(msg) ==
  FullMatch(toUpperCase(msg), <<Atom(UpperLetters, 3, 3), Atom(Digits, 6, 8)>>)

DetectsClass(msg) ==
  \E w \in { <<"u5546", "u52d9">>, <<"u7d93", "u6fdf">>, <<"u982d", "u7b49">>,
             <<"b", "u", "s", "i", "n", "e", "s", "s">>,
             <<"e", "c", "o", "n", "o", "m", "y">> } :
    includes(toLowerCase(msg), w)

DetectsDirection(msg) ==
  \E w \in { <<"u53bb", "u7a0b">>, <<"u56de", "u7a0b">>,
             <<"o", "u", "t", "b", "o", "u", "n", "d">>,
             <<"i", "n", "b", "o", "u", "n", "d">> } :
    includes(toLowerCase(msg), w)

DetectsSeatPreference(msg) ==
  \E w \in { <<"u9760", "u7a97">>, <<"u8d70", "u9053">>, <<"u524d", "u6392">>, <<"u5f8c", "u6392">>,
             <<"u9003", "u751f", "u9580">> } :
    includes(msg, w)

DetectsConfirmation(msg) ==
  \/ toUpperCase(msg) \in ConfirmationWords
  \/ startsWith(msg, <<"u78ba", "u8a8d">>)
  \/ FullMatch(msg, <<Atom({"u662f", "u5c0d", "u597d"}, 1, 1),
                      Atom({"u7684", "u554a", "u5440"}, 0, 1)>>)

\* msg.length <= 10 && no '?', no full-width 'uff1f', no 'u55ce'
IsShortMessage(msg) ==
  /\ Len(msg) <= 10
  /\ ~ includes(msg, <<"?">>)
  /\ ~ includes(msg, <<"uff1f">>)
  /\ ~ includes(msg, <<"u55ce">>)

detectInfoProviding(message) ==
  LET msg == trim(message)
      detectedTypes ==
        PushIf(DetectsDate(msg), "DATE")
        \o PushIf(DetectsDestination(msg), "DESTINATION")
        \o PushIf(DetectsPassengers(msg), "PASSENGERS")
        \o PushIf(DetectsFlightNo(msg), "FLIGHT_NO")
        \o PushIf(DetectsBookingRef(msg), "BOOKING_REF")
        \o PushIf(DetectsClass(msg), "CLASS")
        \o PushIf(DetectsDirection(msg), "DIRECTION")
        \o PushIf(DetectsSeatPreference(msg), "SEAT_PREFERENCE")
        \o PushIf(DetectsConfirmation(msg), "CONFIRMATION")
      isShort == IsShortMessage(msg)
  IN [isInfoProviding |-> Len(detectedTypes) > 0 \/ isShort,
      detectedTypes |-> detectedTypes,
      isShort |-> isShort]
(***************************************************************************)
(* entityExtractor.js.  An extracted value is a text; <<>> stands for null *)
(* and for undefined.                                                      *)
(***************************************************************************)
NoValue == <<>>

DigitValue ==
  [c \in Digits |->
     CASE c = "0" -> 0 [] c = "1" -> 1 [] c = "2" -> 2 [] c = "3" -> 3
       [] c = "4" -> 4 [] c = "5" -> 5 [] c = "6" -> 6 [] c = "7" -> 7
       [] c = "8" -> 8 [] OTHER -> 9]

\* parseInt(digits, 10)
RECURSIVE parseInt(_)
parseInt(ds) ==
  IF ds = <<>> THEN 0
  ELSE 10 * parseInt(SubSeq(ds, 1, Len(ds) - 1)) + DigitValue[ds[Len(ds)]]

\* Number.prototype.toString of a natural number
RECURSIVE toString(_)
toString(n) ==
  LET d == CHOOSE c \in Digits : DigitValue[c] = n % 10
  IN IF n < 10 THEN <<d>> ELSE toString(n \div 10) \o <<d>>

\* String.prototype.padStart(2, '0')
padStart2(s) == IF Len(s) < 2 THEN <<"0">> \o s ELSE s

\* the maximal run of characters of cls that starts at position i
RECURSIVE RunFrom(_, _, _)
RunFrom(s, i, cls) ==
  IF i > Len(s) \/ s[i] \notin cls THEN <<>>
  ELSE <<s[i]>> \o RunFrom(s, i + 1, cls)

\* new Date().getFullYear(), as text
CurrentYear == <<"2", "0", "2", "5">>

DateSeparators == {"/", "-"}

\* /(\d{4})[\/\-](\d{1,2})[\/\-](\d{1,2})/g
fullDateRegex ==
  <<Atom(Digits, 4, 4), Atom(DateSeparators, 1, 1), Atom(Digits, 1, 2),
    Atom(DateSeparators, 1, 1), Atom(Digits, 1, 2)>>

\* /(?<!\d)(\d{1,2})[\/](\d{1,2})(?!\d)/g
shortDateRegex ==
  <<NotBehind(Digits), Atom(Digits, 1, 2), Lit("/"), Atom(Digits, 1, 2),
    NotAhead(Digits)>>

\* /(\d{1,2})u6708(\d{1,2})u65e5?/g
chineseDateRegex ==
  <<Atom(Digits, 1, 2), Lit("u6708"), Atom(Digits, 1, 2), Atom({"u65e5"}, 0, 1)>>

\* the positions a match of pat at position i covers
MatchedRange(s, pat, i) == i..(i + MatchLen(s, i, pat, 1) - 1)

\* normalized form of a full date matched at position i
FullDateAt(text, i) ==
  LET year == SubSeq(text, i, i + 3)
      month == RunFrom(text, i + 5, Digits)
      day == SubSeq(text, i + 6 + Len(month),
                    i + MatchLen(text, i, fullDateRegex, 1) - 1)
  IN year \o <<"/">> \o padStart2(month) \o <<"/">> \o padStart2(day)

\* normalized form of a month/day match at position i; sep is the separator
MonthDayAt(text, i) ==
  LET month == RunFrom(text, i, Digits)
      day == RunFrom(text, i + Len(month) + 1, Digits)
  IN CurrentYear \o <<"/">> \o padStart2(month) \o <<"/">>
       \o padStart2(SubSeq(day, 1, Min({2, Len(day)})))

\* Array.prototype.map over match positions
RECURSIVE MapStarts(_, _, _)
MapStarts(starts, text, kind) ==
  IF starts = <<>> THEN <<>>
  ELSE <<IF kind = "full" THEN FullDateAt(text, Head(starts))
         ELSE MonthDayAt(text, Head(starts))>>
       \o MapStarts(Tail(starts), text, kind)

extractDates(text) ==
  LET fullStarts == MatchStarts(text, fullDateRegex, 1)
      matchedPositions ==
        UNION {MatchedRange(text, fullDateRegex, i) : i \in Range(fullStarts)}
      shortStarts ==
        filter(MatchStarts(text, shortDateRegex, 1),
               (1..Len(text)) \ matchedPositions)
      chineseStarts == MatchStarts(text, chineseDateRegex, 1)
  IN MapStarts(fullStarts, text, "full")
       \o MapStarts(shortStarts, text, "short")
       \o MapStarts(chineseStarts, text, "chinese")

\* the airline code table AIRLINES
AIRLINES ==
  << <<<<"C", "X">>, <<"u570b", "u6cf0", "u822a", "u7a7a">>>>, <<<<"B", "R">>, <<"u9577", "u69ae", "u822a", "u7a7a">>>>, <<<<"C", "I">>, <<"u4e2d", "u83ef", "u822a", "u7a7a">>>>,
     <<<<"S", "Q">>, <<"u65b0", "u52a0", "u5761", "u822a", "u7a7a">>>>, <<<<"T", "G">>, <<"u6cf0", "u570b", "u822a", "u7a7a">>>>, <<<<"J", "L">>, <<"u65e5", "u672c", "u822a", "u7a7a">>>>,
     <<<<"N", "H">>, <<"A", "N", "A", "u5168", "u65e5", "u7a7a">>>>, <<<<"K", "E">>, <<"u5927", "u97d3", "u822a", "u7a7a">>>>, <<<<"O", "Z">>, <<"u97d3", "u4e9e", "u822a", "u7a7a">>>>,
     <<<<"M", "H">>, <<"u99ac", "u4f86", "u897f", "u4e9e", "u822a", "u7a7a">>>>, <<<<"V", "N">>, <<"u8d8a", "u5357", "u822a", "u7a7a">>>>, <<<<"C", "A">>, <<"u4e2d", "u570b", "u570b", "u969b", "u822a", "u7a7a">>>>,
     <<<<"M", "U">>, <<"u6771", "u65b9", "u822a", "u7a7a">>>>, <<<<"C", "Z">>, <<"u5357", "u65b9", "u822a", "u7a7a">>>>, <<<<"H", "X">>, <<"u9999", "u6e2f", "u822a", "u7a7a">>>>,
     <<<<"U", "O">>, <<"u9999", "u6e2f", "u5feb", "u904b">>>>, <<<<"T", "R">>, <<"u9177", "u822a">>>>, <<<<"A", "K">>, <<"u4e9e", "u6d32", "u822a", "u7a7a">>>>,
     <<<<"I", "T">>, <<"u53f0", "u7063", "u864e", "u822a">>>>, <<<<"M", "M">>, <<"u6a02", "u6843", "u822a", "u7a7a">>>> >>

\* the city and airport code table DESTINATIONS, in insertion order
DESTINATIONS ==
  << <<<<"T", "P", "E">>, <<"u53f0", "u5317">>>>, <<<<"K", "H", "H">>, <<"u9ad8", "u96c4">>>>, <<<<"R", "M", "Q">>, <<"u53f0", "u4e2d">>>>,
     <<<<"P", "V", "G">>, <<"u4e0a", "u6d77", "u6d66", "u6771">>>>, <<<<"S", "H", "A">>, <<"u4e0a", "u6d77", "u8679", "u6a4b">>>>, <<<<"P", "E", "K">>, <<"u5317", "u4eac">>>>,
     <<<<"C", "A", "N">>, <<"u5ee3", "u5dde">>>>, <<<<"S", "Z", "X">>, <<"u6df1", "u5733">>>>, <<<<"X", "M", "N">>, <<"u5ec8", "u9580">>>>,
     <<<<"H", "G", "H">>, <<"u676d", "u5dde">>>>, <<<<"N", "R", "T">>, <<"u6771", "u4eac", "u6210", "u7530">>>>, <<<<"H", "N", "D">>, <<"u6771", "u4eac", "u7fbd", "u7530">>>>,
     <<<<"K", "I", "X">>, <<"u5927", "u962a">>>>, <<<<"I", "C", "N">>, <<"u9996", "u723e", "u4ec1", "u5ddd">>>>, <<<<"G", "M", "P">>, <<"u9996", "u723e", "u91d1", "u6d66">>>>,
     <<<<"S", "I", "N">>, <<"u65b0", "u52a0", "u5761">>>>, <<<<"B", "K", "K">>, <<"u66fc", "u8c37">>>>, <<<<"K", "U", "L">>, <<"u5409", "u9686", "u5761">>>>,
     <<<<"S", "G", "N">>, <<"u80e1", "u5fd7", "u660e", "u5e02">>>>, <<<<"H", "A", "N">>, <<"u6cb3", "u5167">>>>, <<<<"M", "N", "L">>, <<"u99ac", "u5c3c", "u62c9">>>>,
     <<<<"H", "K", "G">>, <<"u9999", "u6e2f">>>>, <<<<"M", "F", "M">>, <<"u6fb3", "u9580">>>> >>

\* the country and region list commonPlaces
commonPlaces ==
  << <<"u6cf0", "u570b">>, <<"u65e5", "u672c">>, <<"u97d3", "u570b">>, <<"u65b0", "u52a0", "u5761">>, <<"u99ac", "u4f86", "u897f", "u4e9e">>, <<"u8d8a", "u5357">>, <<"u83f2", "u5f8b", "u8cd3">>, <<"u5370", "u5ea6">>,
     <<"u6b50", "u6d32">>, <<"u7f8e", "u570b">> >>

\* code in table
HasKey(table, code) == \E k \in 1..Len(table) : table[k][1] = code

\* table[code], or NoValue when the table has no such key
Lookup(table, code) ==
  IF HasKey(table, code)
  THEN table[CHOOSE k \in 1..Len(table) : table[k][1] = code][2]
  ELSE NoValue

\* /\b(?!BTE)([A-Z]{2})[\s]?(\d{2,4})\b/gi
flightRegex ==
  <<WordBoundary, NotAheadText(<<"B", "T", "E">>), Atom(UpperLetters, 2, 2),
    Atom(SpaceChars, 0, 1), Atom(Digits, 2, 4), WordBoundary>>

RECURSIVE FlightsAt(_, _)
FlightsAt(text, starts) ==
  IF starts = <<>> THEN <<>>
  ELSE LET m == MatchText(toUpperCase(text), flightRegex, Head(starts))
           airlineCode == SubSeq(m, 1, 2)
           flightNum == filter(SubSeq(m, 3, Len(m)), Digits)
       IN PushIf(Lookup(AIRLINES, airlineCode) # NoValue,
                 [normalized |-> airlineCode \o flightNum,
                  airline |-> Lookup(AIRLINES, airlineCode)])
            \o FlightsAt(text, Tail(starts))

extractFlightNumbers(text) ==
  FlightsAt(text, MatchStarts(toUpperCase(text), flightRegex, 1))

\* /BTE\d{7,}/gi
internalRefRegex ==
  <<Lit("B"), Lit("T"), Lit("E"), Atom(Digits, 7, 1000)>>

\* /\b([A-Z0-9]{6})\b/g
pnrRegex ==
  <<WordBoundary, Atom(UpperLetters \cup Digits, 6, 6), WordBoundary>>

RECURSIVE RefsAt(_, _, _)
RefsAt(text, pat, starts) ==
  IF starts = <<>> THEN <<>>
  ELSE LET m == MatchText(text, pat, Head(starts))
       IN PushIf(pat = internalRefRegex
                   \/ (Range(m) \cap UpperLetters # {}
                         /\ Range(m) \cap Digits # {}),
                 m)
            \o RefsAt(text, pat, Tail(starts))

extractBookingRefs(text) ==
  RefsAt(toUpperCase(text), internalRefRegex,
         MatchStarts(toUpperCase(text), internalRefRegex, 1))
    \o RefsAt(text, pnrRegex, MatchStarts(text, pnrRegex, 1))

\* /\b([A-Z]{3})\b/g
codeRegex == <<WordBoundary, Atom(UpperLetters, 3, 3), WordBoundary>>

RECURSIVE CodesAt(_, _)
CodesAt(text, starts) ==
  IF starts = <<>> THEN <<>>
  ELSE LET code == MatchText(text, codeRegex, Head(starts))
       IN PushIf(Lookup(DESTINATIONS, code) # NoValue,
                 [normalized |-> Lookup(DESTINATIONS, code), code |-> code])
            \o CodesAt(text, Tail(starts))

RECURSIVE NamesIn(_, _)
NamesIn(text, table) ==
  IF table = <<>> THEN <<>>
  ELSE PushIf(includes(text, Head(table)[2]),
              [normalized |-> Head(table)[2], code |-> Head(table)[1]])
         \o NamesIn(text, Tail(table))

RECURSIVE PlacesIn(_, _)
PlacesIn(text, places) ==
  IF places = <<>> THEN <<>>
  ELSE PushIf(includes(text, Head(places)),
              [normalized |-> Head(places), code |-> NoValue])
         \o PlacesIn(text, Tail(places))

extractDestinations(text) ==
  CodesAt(text, MatchStarts(text, codeRegex, 1))
    \o NamesIn(text, DESTINATIONS)
    \o PlacesIn(text, commonPlaces)

\* the digits of the first match of /(\d+)\s*suffix/, or NoValue
CountBefore(text, suffix) ==
  LET ends(i) == i + Len(RunFrom(text, i, Digits))
      hit(i) ==
        /\ text[i] \in Digits
        /\ OccursAt(text, suffix,
                    ends(i) + Len(RunFrom(text, ends(i), SpaceChars)))
      starts == {i \in 1..Len(text) : hit(i)}
  IN IF starts = {} THEN NoValue ELSE RunFrom(text, Min(starts), Digits)

\* the counting suffixes of the patterns of extractPassengers, in order
PassengerSuffixes ==
  << <<"u4f4d">>, <<"u4eba">>, <<"u500b", "u4eba">>, <<"u5927", "u4eba">>, <<"u4f4d", "u5927", "u4eba">> >>

\* the digits pattern number k of extractPassengers captures, or NoValue
PassengerMatch(text, k) ==
  IF k <= Len(PassengerSuffixes) THEN CountBefore(text, PassengerSuffixes[k])
  ELSE IF text # <<>> /\ AllIn(text, 1, Len(text), Digits) THEN text
  ELSE NoValue

chineseNumMap ==
  << <<"u4e00", 1>>, <<"u4e8c", 2>>, <<"u4e09", 3>>, <<"u56db", 4>>, <<"u4e94", 5>>,
     <<"u516d", 6>>, <<"u4e03", 7>>, <<"u516b", 8>>, <<"u4e5d", 9>>, <<"u5341", 10>>,
     <<"u5169", 2>> >>

\* the count /([...])\s*u4f4d/ captures, or 0
ChineseCount(text) ==
  LET hit(i) ==
        /\ HasKey(chineseNumMap, text[i])
        /\ OccursAt(text, <<"u4f4d">>,
                    i + 1 + Len(RunFrom(text, i + 1, SpaceChars)))
      starts == {i \in 1..Len(text) : hit(i)}
  IN IF starts = {} THEN 0 ELSE Lookup(chineseNumMap, text[Min(starts)])

extractPassengers(text) ==
  LET inRange(k) ==
        /\ PassengerMatch(text, k) # NoValue
        /\ parseInt(PassengerMatch(text, k)) >= 1
        /\ parseInt(PassengerMatch(text, k)) <= 50
      good == {k \in 1..(Len(PassengerSuffixes) + 1) : inRange(k)}
  IN IF good # {} THEN toString(parseInt(PassengerMatch(text, Min(good))))
     ELSE IF ChineseCount(text) > 0 THEN toString(ChineseCount(text))
     ELSE NoValue

\* classMap, in insertion order
classMap ==
  << <<<<"u5546", "u52d9", "u8259">>, <<"B", "U", "S", "I", "N", "E", "S", "S">>>>, <<<<"u5546", "u52d9">>, <<"B", "U", "S", "I", "N", "E", "S", "S">>>>,
     <<<<"b", "u", "s", "i", "n", "e", "s", "s">>, <<"B", "U", "S", "I", "N", "E", "S", "S">>>>, <<<<"u7d93", "u6fdf", "u8259">>, <<"E", "C", "O", "N", "O", "M", "Y">>>>,
     <<<<"u7d93", "u6fdf">>, <<"E", "C", "O", "N", "O", "M", "Y">>>>, <<<<"e", "c", "o", "n", "o", "m", "y">>, <<"E", "C", "O", "N", "O", "M", "Y">>>>,
     <<<<"u982d", "u7b49", "u8259">>, <<"F", "I", "R", "S", "T">>>>, <<<<"u982d", "u7b49">>, <<"F", "I", "R", "S", "T">>>>, <<<<"f", "i", "r", "s", "t">>, <<"F", "I", "R", "S", "T">>>>,
     <<<<"u8c6a", "u83ef", "u7d93", "u6fdf", "u8259">>, <<"P", "R", "E", "M", "I", "U", "M", "_", "E", "C", "O", "N", "O", "M", "Y">>>>, <<<<"u8c6a", "u7d93", "u8259">>, <<"P", "R", "E", "M", "I", "U", "M", "_", "E", "C", "O", "N", "O", "M", "Y">>>> >>

extractClass(text) ==
  LET lowerText == toLowerCase(text)
      hits == {k \in 1..Len(classMap) :
                 includes(lowerText, toLowerCase(classMap[k][1]))}
  IN IF hits = {} THEN NoValue ELSE classMap[Min(hits)][2]

extractDirection(text) ==
  IF includes(text, <<"u53bb", "u7a0b">>) \/ includes(text, <<"u51fa", "u767c">>)
  THEN <<"O", "U", "T", "B", "O", "U", "N", "D">>
  ELSE IF includes(text, <<"u56de", "u7a0b">>) \/ includes(text, <<"u8fd4", "u7a0b">>)
  THEN <<"I", "N", "B", "O", "U", "N", "D">>
  ELSE NoValue

extractSeatPreference(text) ==
  IF includes(text, <<"u9760", "u7a97">>) \/ includes(text, <<"u7a97", "u908a">>)
  THEN <<"W", "I", "N", "D", "O", "W">>
  ELSE IF includes(text, <<"u8d70", "u9053">>) \/ includes(text, <<"u9760", "u8d70", "u9053">>)
  THEN <<"A", "I", "S", "L", "E">>
  ELSE IF includes(text, <<"u524d", "u6392">>) \/ includes(text, <<"u524d", "u9762">>)
  THEN <<"F", "R", "O", "N", "T">>
  ELSE NoValue

\* /(\d{8})/g
taxIdRegex == <<Atom(Digits, 8, 8)>>

\* /\b(\d{8})\b/g
standaloneRegex == <<WordBoundary, Atom(Digits, 8, 8), WordBoundary>>

\* the first match of a RegExp in text, or NoValue for null
exec(text, pat) ==
  IF MatchStarts(text, pat, 1) = <<>> THEN NoValue
  ELSE MatchText(text, pat, Head(MatchStarts(text, pat, 1)))

\* extractTaxId.  Its first test reads  match && A || B : when the text has
\* the words of B and no eight digits, match is null and match[0] raises a
\* TypeError.
extractTaxId(text) ==
  LET match == exec(text, taxIdRegex)
      named == \/ (match # NoValue /\ includes(text, <<"u7d71", "u7de8">>))
               \/ includes(text, <<"u7d71", "u4e00", "u7de8", "u865f">>)
  IN IF named
     THEN [throws |-> match = NoValue, value |-> match]
     ELSE [throws |-> FALSE, value |-> exec(text, standaloneRegex)]

PhoneSeparators == {"-", " "}

\* /09\d{2}[\-\s]?\d{3}[\-\s]?\d{3}/g
mobileRegex ==
  <<Lit("0"), Lit("9"), Atom(Digits, 2, 2), Atom(PhoneSeparators, 0, 1),
    Atom(Digits, 3, 3), Atom(PhoneSeparators, 0, 1), Atom(Digits, 3, 3)>>

\* /\(?\d{2,3}\)?[\-\s]?\d{4}[\-\s]?\d{4}/g
telRegex ==
  <<Atom({"("}, 0, 1), Atom(Digits, 2, 3), Atom({")"}, 0, 1),
    Atom(PhoneSeparators, 0, 1), Atom(Digits, 4, 4),
    Atom(PhoneSeparators, 0, 1), Atom(Digits, 4, 4)>>

RECURSIVE PhonesAt(_, _, _)
PhonesAt(text, pat, starts) ==
  IF starts = <<>> THEN <<>>
  ELSE <<filter(MatchText(text, pat, Head(starts)), Digits)>>
         \o PhonesAt(text, pat, Tail(starts))

extractPhones(text) ==
  PhonesAt(text, mobileRegex, MatchStarts(text, mobileRegex, 1))
    \o PhonesAt(text, telRegex, MatchStarts(text, telRegex, 1))

\* extractAllEntities; throws is set when one of the extractors raises
extractAllEntities(text) ==
  [dates |-> extractDates(text),
   flightNumbers |-> extractFlightNumbers(text),
   bookingRefs |-> extractBookingRefs(text),
   destinations |-> extractDestinations(text),
   passengers |-> extractPassengers(text),
   class |-> extractClass(text),
   direction |-> extractDirection(text),
   seatPreference |-> extractSeatPreference(text),
   taxId |-> extractTaxId(text).value,
   phones |-> extractPhones(text),
   throws |-> extractTaxId(text).throws]

\* an object with the single property key, or the empty object
Prop(cond, key, value) == IF cond THEN (key :> value) ELSE <<>>

\* { ...a, ...b }: the properties of b override those of a
Spread(a, b) == b @@ a

flattenEntities(entities) ==
  LET dates == entities.dates
      flights == entities.flightNumbers
      dests == entities.destinations
  IN Prop(Len(dates) > 0, "date", dates[1])
     @@ Prop(Len(dates) > 1, "date_return", dates[2])
     @@ Prop(Len(flights) > 0, "flight_no", flights[1].normalized)
     @@ Prop(Len(flights) > 0, "airline", flights[1].airline)
     @@ Prop(Len(entities.bookingRefs) > 0, "booking_ref",
             entities.bookingRefs[1])
     @@ Prop(Len(dests) > 0, "destination", dests[1].normalized)
     @@ Prop(Len(dests) > 0 /\ dests[1].code # NoValue, "destination_code",
             dests[1].code)
     @@ Prop(entities.passengers # NoValue, "passengers", entities.passengers)
     @@ Prop(entities.class # NoValue, "class", entities.class)
     @@ Prop(entities.direction # NoValue, "direction", entities.direction)
     @@ Prop(entities.seatPreference # NoValue, "seat_preference",
             entities.seatPreference)
     @@ Prop(entities.taxId # NoValue, "tax_id", entities.taxId)
     @@ Prop(Len(entities.phones) > 0, "phone", entities.phones[1])

(***************************************************************************)
(* faqRetriever.js.                                                        *)
(***************************************************************************)
\* the knowledge base loadFAQData reads, in load order: the rows of the
\* data file are input data, here three entries of two categories
faqData ==
  << [id |-> 1, category |-> <<"u6a5f", "u7968", "u670d", "u52d9">>, question |-> <<"u6539", "u7968", "u8cbb", "u7528", "u662f", "u591a", "u5c11">>,
      answer |-> <<"u6539", "u7968", "u8cbb", "u7528", "u7d04", "8", "0", "0", "u5143">>, keywords |-> <<<<"u6539", "u7968">>, <<"u8cbb", "u7528">>>>],
     [id |-> 2, category |-> <<"u7c3d", "u8b49", "u8b77", "u7167">>, question |-> <<"u53bb", "u6cf0", "u570b", "u8981", "u7c3d", "u8b49", "u55ce">>,
      answer |-> <<"u6cf0", "u570b", "u514d", "u7c3d", "6", "0", "u5929">>, keywords |-> <<<<"u6cf0", "u570b">>, <<"u7c3d", "u8b49">>>>],
     [id |-> 3, category |-> <<"u6a5f", "u7968", "u670d", "u52d9">>, question |-> <<"u9000", "u7968", "u8cbb", "u7528", "u662f", "u591a", "u5c11">>,
      answer |-> <<"u9000", "u7968", "u8cbb", "u7528", "u7d04", "2", "0", "0", "0", "u5143">>, keywords |-> <<<<"u9000", "u7968">>, <<"u8cbb", "u7528">>>>] >>

stopWords ==
  { <<"u7684">>, <<"u662f">>, <<"u5728">>, <<"u6709">>, <<"u55ce">>, <<"u5462">>, <<"u554a">>, <<"u8981">>,
    <<"u6211">>, <<"u4f60">>, <<"u53ef", "u4ee5">>, <<"u8acb", "u554f">>, <<"u60f3">>, <<"u600e", "u9ebc">>, <<"u4ec0", "u9ebc">>,
    <<"u591a", "u5c11">> }

\* the punctuation extractKeywords replaces by a blank
KeywordPunctuation ==
  {"uff0c", "u3002", "uff1f", "uff01", "u3001", "uff1a", "uff1b", "\"", "'", "uff08", "uff09",
   "u3010", "u3011"}

categoryKeywords ==
  << <<<<"u6a5f", "u7968", "u670d", "u52d9">>, <<<<"u6a5f", "u7968">>, <<"u8a02", "u7968">>, <<"u6539", "u7968">>, <<"u9000", "u7968">>, <<"u958b", "u7968">>, <<"u822a", "u73ed">>>> >>,
     <<<<"u7c3d", "u8b49", "u8b77", "u7167">>, <<<<"u7c3d", "u8b49">>, <<"u8b77", "u7167">>, <<"u53f0", "u80de", "u8b49">>, <<"u514d", "u7c3d">>, <<"u5165", "u5883">>>> >>,
     <<<<"u4ed8", "u6b3e", "u6536", "u64da">>, <<<<"u4ed8", "u6b3e">>, <<"u5237", "u5361">>, <<"u6536", "u64da">>, <<"u767c", "u7968">>, <<"u7d71", "u7de8">>>> >>,
     <<<<"u65c5", "u904a", "u5b89", "u5168">>, <<<<"u65c5", "u904a", "u8b66", "u793a">>, <<"u7d05", "u8272">>, <<"u5371", "u96aa">>, <<"u5b89", "u5168">>, <<"u7dca", "u6025">>>> >>,
     <<<<"u670d", "u52d9", "u8cc7", "u8a0a">>, <<<<"u670d", "u52d9", "u6642", "u9593">>, <<"u71df", "u696d">>, <<"u806f", "u7d61">>, <<"u96fb", "u8a71">>>> >> >>

\* String.prototype.split(/\s+/) followed by filter(w => w.length > 0)
RECURSIVE Words(_)
Words(s) ==
  IF s = <<>> THEN <<>>
  ELSE IF Head(s) \in SpaceChars THEN Words(Tail(s))
  ELSE LET w == RunFrom(s, 1, {s[i] : i \in 1..Len(s)} \ SpaceChars)
       IN <<w>> \o Words(SubSeq(s, Len(w) + 1, Len(s)))

RECURSIVE DropWords(_)
DropWords(ws) ==
  IF ws = <<>> THEN <<>>
  ELSE PushIf(Head(ws) \notin stopWords /\ Len(Head(ws)) > 1, Head(ws))
         \o DropWords(Tail(ws))

extractKeywords(query) ==
  LET cleaned == [i \in 1..Len(query) |->
                    IF query[i] \in KeywordPunctuation THEN " " ELSE query[i]]
  IN DropWords(Words(cleaned))

\* the number of elements of ws for which the text s includes the element
RECURSIVE CountIncluded(_, _)
CountIncluded(ws, s) ==
  IF ws = <<>> THEN 0
  ELSE (IF includes(s, Head(ws)) THEN 1 ELSE 0) + CountIncluded(Tail(ws), s)

\* the words of ws in lower case
RECURSIVE LowerAll(_)
LowerAll(ws) ==
  IF ws = <<>> THEN <<>> ELSE <<toLowerCase(Head(ws))>> \o LowerAll(Tail(ws))

\* the relevance score searchFAQ gives an entry
FaqScore(faq, query) ==
  LET queryLower == toLowerCase(query)
      queryKeywords == extractKeywords(query)
      category == IF HasKey(categoryKeywords, faq.category)
                  THEN Lookup(categoryKeywords, faq.category) ELSE <<>>
  IN (IF includes(toLowerCase(faq.question), queryLower) THEN 10 ELSE 0)
     + 3 * CountIncluded(LowerAll(faq.keywords), queryLower)
     + 2 * CountIncluded(queryKeywords, toLowerCase(faq.question))
     + CountIncluded(queryKeywords, toLowerCase(faq.answer))
     + 2 * CountIncluded(category, queryLower)

\* Array.prototype.sort((a, b) => b.score - a.score), a stable sort:
\* insertion of x after the entries whose score is not smaller
RECURSIVE InsertByScore(_, _)

\* a sort that puts an entry before the entries of the same score
RECURSIVE InsertByScore_Unstable(_, _)
InsertByScore_Unstable(sorted, x) ==
  IF sorted = <<>> THEN <<x>>
  ELSE IF Head(sorted).score > x.score
  THEN <<Head(sorted)>> \o InsertByScore_Unstable(Tail(sorted), x)
  ELSE <<x>> \o sorted

InsertByScore(sorted, x) ==
  IF sorted = <<>> THEN <<x>>
  ELSE IF Head(sorted).score >= x.score
  THEN <<Head(sorted)>> \o InsertByScore(Tail(sorted), x)
  ELSE <<x>> \o sorted

RECURSIVE SortByScore(_)
SortByScore(s) ==
  IF s = <<>> THEN <<>>
  ELSE InsertByScore(SortByScore(SubSeq(s, 1, Len(s) - 1)), s[Len(s)])

RECURSIVE Scored(_, _)
Scored(corpus, query) ==
  IF corpus = <<>> THEN <<>>
  ELSE LET e == [faq |-> Head(corpus), score |-> FaqScore(Head(corpus), query)]
       IN PushIf(e.score > 0, e) \o Scored(Tail(corpus), query)

searchFAQ(query, maxResults) ==
  IF Len(faqData) = 0 THEN <<>>
  ELSE LET ranked == SortByScore(Scored(faqData, query))
       IN SubSeq(ranked, 1, Min({maxResults, Len(ranked)}))

(***************************************************************************)
(* intentRouter.js: dialogue state and intent handlers.  An entity record  *)
(* is a function from property names to texts.  The reply of a handler is  *)
(* named by the return statement that produced it (text) and, for a reply  *)
(* that quotes the knowledge base, by the entry quoted (faq, else 0).      *)
(***************************************************************************)
\* obj[key], or NoValue when obj has no such property
Get(obj, key) == IF key \in DOMAIN obj THEN obj[key] ELSE NoValue

\* obj[a] || obj[b]
Either(obj, a, b) == IF Get(obj, a) # NoValue THEN Get(obj, a) ELSE Get(obj, b)

Has(obj, a, b) == Either(obj, a, b) # NoValue

Reply(text) == [text |-> text, faq |-> 0]

FaqReply(hit) == [text |-> "FAQ_ANSWER", faq |-> hit.faq.id]

\* what a handler returns; awaitingInfo is <<>> when the handler sets none
Response(message, requiresHuman, awaitingInfo, conversationComplete) ==
  [message |-> message, requiresHuman |-> requiresHuman,
   awaitingInfo |-> awaitingInfo,
   conversationComplete |-> conversationComplete]

\* session.conversationState = null
NoState == [open |-> FALSE]

\* /^(u597d|u597du7684|u5c0d|u5c0du7684|u662f|u662fu7684|OK|u53efu4ee5|u6c92u554fu984c|u55ef|u6c92u932f|u6b63u78ba)$/i of handleTicketBook
TicketConfirmWords ==
  { <<"u597d">>, <<"u597d", "u7684">>, <<"u5c0d">>, <<"u5c0d", "u7684">>, <<"u662f">>, <<"u662f", "u7684">>, <<"O", "K">>,
    <<"u53ef", "u4ee5">>, <<"u6c92", "u554f", "u984c">>, <<"u55ef">>, <<"u6c92", "u932f">>, <<"u6b63", "u78ba">> }

handleTicketBook_NoConfirmation(message, entities, context, isContinuation) ==
  IF /\ Has(entities, "destination", "DESTINATION")
     /\ Has(entities, "date", "DATE")
     /\ Has(entities, "passengers", "PASSENGERS")
  THEN Response(Reply("BOOK_CONFIRMED"), TRUE, <<>>, TRUE)
  ELSE Response(Reply("BOOK_ASK"), FALSE, <<"DATE">>, FALSE)

handleTicketBook(message, entities, context, isContinuation) ==
  LET isConfirmation ==
        /\ isContinuation
        /\ \/ includes(message, <<"u78ba", "u8a8d">>)
           \/ includes(message, <<"u78ba", "u5b9a">>)
           \/ toUpperCase(trim(message)) \in TicketConfirmWords
      collectedInfo == IF context.conversationState.open
                       THEN context.conversationState.collectedInfo ELSE <<>>
      dest == IF Has(entities, "destination", "DESTINATION")
              THEN Either(entities, "destination", "DESTINATION")
              ELSE Get(collectedInfo, "destination")
      dt == IF Has(entities, "date", "DATE")
            THEN Either(entities, "date", "DATE")
            ELSE Get(collectedInfo, "date")
      pax == IF Has(entities, "passengers", "PASSENGERS")
             THEN Either(entities, "passengers", "PASSENGERS")
             ELSE Get(collectedInfo, "passengers")
      hasBookingRef == Has(entities, "booking_ref", "BOOKING_REF")
      hasDestination == Has(entities, "destination", "DESTINATION")
      hasDate == Has(entities, "date", "DATE")
      hasPassengers == Has(entities, "passengers", "PASSENGERS")
      awaitingInfo == PushIf(~ hasDate, "DATE")
                        \o PushIf(~ hasDestination, "DESTINATION")
                        \o PushIf(~ hasPassengers, "PASSENGERS")
  IN IF isConfirmation /\ dest # NoValue /\ dt # NoValue /\ pax # NoValue
     THEN Response(Reply("BOOK_CONFIRMED"), TRUE, <<>>, TRUE)
     ELSE IF hasBookingRef
     THEN Response(Reply("BOOK_TICKETING"), TRUE, <<>>, TRUE)
     ELSE IF Len(awaitingInfo) > 0
     THEN Response(Reply("BOOK_ASK"), Len(awaitingInfo) = 0, awaitingInfo,
                   FALSE)
     ELSE Response(Reply("BOOK_PLEASE_CONFIRM"), FALSE, <<"CONFIRMATION">>,
                   FALSE)

handleTicketChange(message, entities, context, isContinuation) ==
  LET hasDate == Has(entities, "date", "DATE")
      hasFlightNo == Has(entities, "flight_no", "FLIGHT_NO")
      hasDirection == Has(entities, "direction", "DIRECTION")
      hasBookingRef == Has(entities, "booking_ref", "BOOKING_REF")
      hasPassengerName == Has(entities, "passenger_name", "PASSENGER_NAME")
  IN IF ~ hasBookingRef /\ ~ hasPassengerName
     THEN Response(Reply("CHANGE_ASK_BOOKING"), TRUE,
                   <<"BOOKING_REF", "PASSENGER_NAME">>, FALSE)
     ELSE IF ~ hasDate /\ ~ hasFlightNo /\ ~ hasDirection
     THEN Response(Reply("CHANGE_ASK_DATE"), TRUE, <<"DATE", "FLIGHT_NO">>,
                   FALSE)
     ELSE Response(Reply("CHANGE_COLLECTED"), TRUE, <<>>, TRUE)

handleTicketCancel(message, entities, context, isContinuation) ==
  Response(Reply("CANCEL_INFO"), TRUE, <<>>, FALSE)

handleQuoteRequest_NoHuman(message, entities, context, isContinuation) ==
  IF Has(entities, "destination", "DESTINATION") /\ Has(entities, "date", "DATE")
  THEN Response(Reply("QUOTE_COLLECTED"), FALSE, <<>>, TRUE)
  ELSE Response(Reply("QUOTE_ASK"), FALSE, <<"DESTINATION">>, FALSE)

handleQuoteRequest(message, entities, context, isContinuation) ==
  LET hasDestination == Has(entities, "destination", "DESTINATION")
      hasDate == Has(entities, "date", "DATE")
      awaitingInfo == PushIf(~ hasDestination, "DESTINATION")
                        \o PushIf(~ hasDate, "DATE")
  IN IF Len(awaitingInfo) > 0
     THEN Response(Reply("QUOTE_ASK"), FALSE, awaitingInfo, FALSE)
     ELSE Response(Reply("QUOTE_COLLECTED"), TRUE, <<>>, TRUE)

handleFlightQuery(message, entities, context, isContinuation) ==
  LET hasDestination == Has(entities, "destination", "DESTINATION")
      hasDate == Has(entities, "date", "DATE")
  IN IF ~ hasDestination
     THEN Response(Reply("FLIGHT_ASK_DESTINATION"), FALSE, <<"DESTINATION">>,
                   FALSE)
     ELSE IF ~ hasDate
     THEN Response(Reply("FLIGHT_ASK_DATE"), FALSE, <<"DATE">>, FALSE)
     ELSE Response(Reply("FLIGHT_COLLECTED"), TRUE, <<>>, TRUE)

handleBookingStatus(message, entities, context, isContinuation) ==
  IF \/ Has(entities, "booking_ref", "BOOKING_REF")
     \/ Has(entities, "passenger_name", "PASSENGER_NAME")
  THEN Response(Reply("STATUS_LOOKUP"), TRUE, <<>>, TRUE)
  ELSE Response(Reply("STATUS_ASK"), FALSE,
                <<"BOOKING_REF", "PASSENGER_NAME">>, FALSE)

handleVisaInquiry(message, entities, context, isContinuation) ==
  LET faqs == searchFAQ(message, 3)
  IN IF Len(faqs) > 0 THEN Response(FaqReply(faqs[1]), FALSE, <<>>, FALSE)
     ELSE Response(Reply("VISA_INFO"), FALSE, <<>>, FALSE)

handleVisaProgress(message, entities, context, isContinuation) ==
  Response(Reply("VISA_PROGRESS"), TRUE, <<>>, FALSE)

handlePaymentRequest(message, entities, context, isContinuation) ==
  Response(Reply("PAYMENT_INFO"), TRUE, <<>>, FALSE)

handleReceiptRequest(message, entities, context, isContinuation) ==
  Response(Reply("RECEIPT_INFO"), TRUE, <<>>, FALSE)

handlePassengerInfo(message, entities, context, isContinuation) ==
  Response(Reply("PASSENGER_INFO_RECEIVED"), FALSE, <<>>, FALSE)

handleBaggageInquiry(message, entities, context, isContinuation) ==
  Response(Reply("BAGGAGE_INFO"), FALSE, <<>>, FALSE)

handleSeatRequest(message, entities, context, isContinuation) ==
  Response(Reply("SEAT_RECORDED"), FALSE, <<>>, FALSE)

handleGreeting(message, entities, context, isContinuation) ==
  IF includes(message, <<"u8b1d", "u8b1d">>) \/ includes(message, <<"u611f", "u8b1d">>)
  THEN Response(Reply("GREETING_WELCOME"), FALSE, <<>>, FALSE)
  ELSE IF \/ includes(message, <<"u6536", "u5230">>) \/ includes(message, <<"u597d", "u7684">>)
          \/ includes(message, <<"u4e86", "u89e3">>)
  THEN Response(Reply("GREETING_ACK"), FALSE, <<>>, FALSE)
  ELSE Response(Reply("GREETING_HELLO"), FALSE, <<>>, FALSE)

handleTransferAgent(message, entities, context, isContinuation) ==
  Response(Reply("TRANSFER_TO_AGENT"), TRUE, <<>>, FALSE)

handleFaqGeneral(message, entities, context, isContinuation) ==
  LET faqs == searchFAQ(message, 3)
  IN IF Len(faqs) > 0 THEN Response(FaqReply(faqs[1]), FALSE, <<>>, FALSE)
     ELSE Response(Reply("FAQ_NEEDS_AGENT"), TRUE, <<>>, FALSE)

\* a handleUnknown that does not look at the FAQ
handleUnknown_NoFaq(message, entities, context, isContinuation) ==
  Response(Reply("UNKNOWN_MENU"), FALSE, <<>>, FALSE)

handleUnknown(message, entities, context, isContinuation) ==
  LET faqs == searchFAQ(message, 3)
  IN IF Len(faqs) > 0 THEN Response(FaqReply(faqs[1]), FALSE, <<>>, FALSE)
     ELSE Response(Reply("UNKNOWN_MENU"), FALSE, <<>>, FALSE)

\* the 17 intent codes of INTENTS (intentClassifier.js)
INTENTS ==
  {"TICKET_BOOK", "TICKET_CHANGE", "TICKET_CANCEL", "QUOTE_REQUEST",
   "FLIGHT_QUERY", "BOOKING_STATUS", "VISA_INQUIRY", "VISA_PROGRESS",
   "PAYMENT_REQUEST", "RECEIPT_REQUEST", "PASSENGER_INFO", "BAGGAGE_INQUIRY",
   "SEAT_REQUEST", "GREETING", "TRANSFER_AGENT", "FAQ_GENERAL", "UNKNOWN"}

\* getIntentHandler(intent)(message, entities, context, isContinuation)
getIntentHandler(intent, message, entities, context, isContinuation) ==
  CASE intent = "TICKET_BOOK" ->
         handleTicketBook(message, entities, context, isContinuation)
    [] intent = "TICKET_CHANGE" ->
         handleTicketChange(message, entities, context, isContinuation)
    [] intent = "TICKET_CANCEL" ->
         handleTicketCancel(message, entities, context, isContinuation)
    [] intent = "QUOTE_REQUEST" ->
         handleQuoteRequest(message, entities, context, isContinuation)
    [] intent = "FLIGHT_QUERY" ->
         handleFlightQuery(message, entities, context, isContinuation)
    [] intent = "BOOKING_STATUS" ->
         handleBookingStatus(message, entities, context, isContinuation)
    [] intent = "VISA_INQUIRY" ->
         handleVisaInquiry(message, entities, context, isContinuation)
    [] intent = "VISA_PROGRESS" ->
         handleVisaProgress(message, entities, context, isContinuation)
    [] intent = "PAYMENT_REQUEST" ->
         handlePaymentRequest(message, entities, context, isContinuation)
    [] intent = "RECEIPT_REQUEST" ->
         handleReceiptRequest(message, entities, context, isContinuation)
    [] intent = "PASSENGER_INFO" ->
         handlePassengerInfo(message, entities, context, isContinuation)
    [] intent = "BAGGAGE_INQUIRY" ->
         handleBaggageInquiry(message, entities, context, isContinuation)
    [] intent = "SEAT_REQUEST" ->
         handleSeatRequest(message, entities, context, isContinuation)
    [] intent = "GREETING" ->
         handleGreeting(message, entities, context, isContinuation)
    [] intent = "TRANSFER_AGENT" ->
         handleTransferAgent(message, entities, context, isContinuation)
    [] intent = "FAQ_GENERAL" ->
         handleFaqGeneral(message, entities, context, isContinuation)
    [] OTHER -> handleUnknown(message, entities, context, isContinuation)

(***************************************************************************)
(* intentClassifier.js.  The language model is outside the program: what   *)
(* it answers is an input of the turn.  A raw answer is either a parsed    *)
(* JSON classification or a failure (no JSON in the text, JSON.parse or    *)
(* the API call throwing), which classifyIntent turns into UNKNOWN.        *)
(***************************************************************************)
\* INTENTS[intent].automation === 'none', INTENTS.UNKNOWN for an unlisted code
AutomationNone(intent) ==
  intent \in {"TRANSFER_AGENT", "UNKNOWN"} \/ intent \notin INTENTS

\* the value classifyIntent resolves to, for a raw answer of the model
classifyIntent(raw) ==
  IF raw.parsed
  THEN [success |-> TRUE, intent |-> raw.intent, entities |-> raw.entities,
        requiresHuman |-> raw.requires_human \/ AutomationNone(raw.intent)]
  ELSE [success |-> FALSE, intent |-> "UNKNOWN", entities |-> <<>>,
        requiresHuman |-> FALSE]

(***************************************************************************)
(* intentRouter.js: sessions and the turn.  Times are whole minutes.       *)
(***************************************************************************)
MsPerMinute == 60000

\* a window of four minutes
ContinuationWindowMs_Four == 4 * 60 * 1000

\* 5 * 60 * 1000 of checkIntentContinuation
ContinuationWindowMs == 300000

\* a checkIntentContinuation that answers "continue" where the code
\* returns null
NoContinuation_Continues ==
  [shouldContinue |-> TRUE, intent |-> "TICKET_BOOK", matchedTypes |-> <<>>]

\* null when the turn does not continue the open intent
NoContinuation == [shouldContinue |-> FALSE]

checkIntentContinuation(session, userMessage, infoDetection, now) ==
  LET state == session.conversationState
  IN IF ~ state.open \/ state.currentIntent = "" THEN NoContinuation
     ELSE IF (now - state.lastAskedAt) * MsPerMinute > ContinuationWindowMs
     THEN NoContinuation
     ELSE IF Len(state.awaitingInfo) = 0 THEN NoContinuation
     ELSE LET matchedTypes ==
                filter(infoDetection.detectedTypes,
                       Range(state.awaitingInfo) \cup {"CONFIRMATION"})
          IN IF \/ Len(matchedTypes) > 0
                \/ (infoDetection.isShort /\ Len(state.awaitingInfo) > 0)
             THEN [shouldContinue |-> TRUE, intent |-> state.currentIntent,
                   matchedTypes |-> matchedTypes]
             ELSE NoContinuation

\* an updateConversationState that keeps the intent of an open dialogue state
updateConversationState_KeepsIntent(session, intent, awaitingInfo, collectedInfo, now) ==
  [session EXCEPT !.conversationState =
     [open |-> TRUE,
      currentIntent |-> IF session.conversationState.open
                        THEN session.conversationState.currentIntent ELSE intent,
      awaitingInfo |-> awaitingInfo,
      collectedInfo |->
        Spread(IF session.conversationState.open
               THEN session.conversationState.collectedInfo ELSE <<>>,
               collectedInfo),
      lastAskedAt |-> now]]

\* the session after updateConversationState(session, ...)
updateConversationState(session, intent, awaitingInfo, collectedInfo, now) ==
  [session EXCEPT !.conversationState =
     [open |-> TRUE, currentIntent |-> intent, awaitingInfo |-> awaitingInfo,
      collectedInfo |->
        Spread(IF session.conversationState.open
               THEN session.conversationState.collectedInfo ELSE <<>>,
               collectedInfo),
      lastAskedAt |-> now]]

\* a clearConversationState that leaves the dialogue state in place
clearConversationState_Keeps(session) == session

clearConversationState(session) ==
  [session EXCEPT !.conversationState = NoState]

HexChars == Digits \cup {"a", "b", "c", "d", "e", "f"}
                   \cup {"A", "B", "C", "D", "E", "F"}

\* /^[0-9a-f]{8}-[0-9a-f]{4}-[0-9a-f]{4}-[0-9a-f]{4}-[0-9a-f]{12}$/i
uuidRegex ==
  <<Atom(HexChars, 8, 8), Lit("-"), Atom(HexChars, 4, 4), Lit("-"),
    Atom(HexChars, 4, 4), Lit("-"), Atom(HexChars, 4, 4), Lit("-"),
    Atom(HexChars, 12, 12)>>

isUUID(str) == FullMatch(str, uuidRegex)

\* the object getOrCreateSession puts in the map for an unknown id
NewSession ==
  [history |-> <<>>, entities |-> <<>>, conversationState |-> NoState,
   isFromDatabase |-> FALSE]

\* a getOrCreateSession that starts every turn with a new session
getOrCreateSession_Fresh(sess, sessionId, db) ==
  [session |-> NewSession, sessions |-> (sessionId :> NewSession) @@ sess,
   stored |-> TRUE]

\* db is what getConversationHistory does: [ok, history], ok FALSE = it throws.
\* Gives the session object, the map after the call and whether the object
\* is the one held by the map (stored) or a fresh one built from the database.
getOrCreateSession(sess, sessionId, db) ==
  IF isUUID(sessionId) /\ db.ok
  THEN [session |->
          [history |-> db.history,
           entities |-> IF sessionId \in DOMAIN sess
                        THEN sess[sessionId].entities ELSE <<>>,
           conversationState |-> IF sessionId \in DOMAIN sess
                                 THEN sess[sessionId].conversationState
                                 ELSE NoState,
           isFromDatabase |-> TRUE],
        sessions |-> sess, stored |-> FALSE]
  ELSE LET created == IF sessionId \in DOMAIN sess THEN sess
                      ELSE (sessionId :> NewSession) @@ sess
       IN [session |-> created[sessionId], sessions |-> created,
           stored |-> TRUE]

\* session.history.slice(-20)
HistoryLimit == 20

\* a slice that keeps every entry
LastN_All(s, n) == IF Len(s) > n THEN s ELSE SubSeq(s, 1, Len(s))

LastN(s, n) == IF Len(s) > n THEN SubSeq(s, Len(s) - n + 1, Len(s)) ELSE s

\* the map after updateSessionHistory(sessionId, userMessage, response, ...)
updateSessionHistory(sess, sessionId, userMessage, response, isFromDatabase) ==
  IF isFromDatabase THEN sess
  ELSE LET present == IF sessionId \in DOMAIN sess THEN sess
                      ELSE (sessionId :> NewSession) @@ sess
           pushed == present[sessionId].history
                       \o <<[role |-> "user", content |-> userMessage],
                            [role |-> "assistant", content |-> response]>>
       IN [present EXCEPT ![sessionId].history = LastN(pushed, HistoryLimit)]

\* the reply of the catch block of handleMessage
ApologyReply == Reply("SYSTEM_ERROR_APOLOGY")

\* a catch block that does not ask for a human
ErrorResult_NoHuman ==
  [success |-> FALSE, intent |-> "undefined", entities |-> <<>>,
   reply |-> ApologyReply, requiresHuman |-> FALSE, isContinuation |-> FALSE,
   awaitingInfo |-> <<>>]

\* what handleMessage returns from its catch block (no intent, no
\* isContinuation, no awaitingInfo: they read as undefined)
ErrorResult ==
  [success |-> FALSE, intent |-> "undefined", entities |-> <<>>,
   reply |-> ApologyReply, requiresHuman |-> TRUE, isContinuation |-> FALSE,
   awaitingInfo |-> <<>>]

\* handleMessage, in the order of its statements.  Each step hands the
\* values it has computed to the next one.
\*
\* steps 4 and 5 and the return value: the dialogue state is updated or
\* cleared, the session is saved and the history extended
\* no handler has returned: the call ended in the catch block
NoResponse == [thrown |-> TRUE]

handleMessageSaved(got, isContinuation, intentResult, mergedEntities, response, session2, userMessage, sessionId) ==
  [sessions |->
     updateSessionHistory((sessionId :> session2) @@ got.sessions, sessionId,
                          userMessage, response.message,
                          session2.isFromDatabase),
   result |->
     [success |-> TRUE, intent |-> intentResult.intent,
      entities |-> mergedEntities, reply |-> response.message,
      requiresHuman |-> response.requiresHuman \/ intentResult.requiresHuman,
      isContinuation |-> isContinuation,
      awaitingInfo |-> response.awaitingInfo],
   classified |-> ~ isContinuation, response |-> response]

handleMessageHandled(got, isContinuation, intentResult, mergedEntities, session1, response, userMessage, sessionId, now) ==
  handleMessageSaved(
    got, isContinuation, intentResult, mergedEntities, response,
    IF Len(response.awaitingInfo) > 0
    THEN updateConversationState(session1, intentResult.intent,
                                 response.awaitingInfo, mergedEntities, now)
    ELSE IF response.conversationComplete
    THEN clearConversationState(session1)
    ELSE session1,
    userMessage, sessionId)

\* step 3: session.entities = mergedEntities, then the handler of the intent
handleMessageRouted(got, isContinuation, intentResult, mergedEntities, session1, userMessage, sessionId, now) ==
  handleMessageHandled(
    got, isContinuation, intentResult, mergedEntities, session1,
    getIntentHandler(intentResult.intent, userMessage, mergedEntities,
                     session1, isContinuation),
    userMessage, sessionId, now)

handleMessageMerged(got, isContinuation, intentResult, mergedEntities, userMessage, sessionId, now) ==
  handleMessageRouted(
    got, isContinuation, intentResult, mergedEntities,
    [got.session EXCEPT !.entities = mergedEntities],
    userMessage, sessionId, now)

\* a merge in which the rule-based extraction is spread last
handleMessageExtracted_RulesLast(got, isContinuation, intentResult, ruleBasedEntities, userMessage, sessionId, ready, now) ==
  IF (~ isContinuation /\ ~ ready) \/ ruleBasedEntities.throws
  THEN [sessions |-> got.sessions, result |-> ErrorResult,
        classified |-> ~ isContinuation, response |-> NoResponse]
  ELSE handleMessageMerged(
         got, isContinuation, intentResult,
         Spread(Spread(Spread(IF got.session.conversationState.open
                              THEN got.session.conversationState.collectedInfo
                              ELSE <<>>,
                              got.session.entities),
                       intentResult.entities),
                flattenEntities(ruleBasedEntities)),
         userMessage, sessionId, now)

\* steps 1 and 2: classifyIntent raises when the model is not initialised,
\* extractAllEntities when an extractor raises; the catch block returns the
\* failure result and the session is left as it was
handleMessageExtracted(got, isContinuation, intentResult, ruleBasedEntities, userMessage, sessionId, ready, now) ==
  IF (~ isContinuation /\ ~ ready) \/ ruleBasedEntities.throws
  THEN [sessions |-> got.sessions, result |-> ErrorResult,
        classified |-> ~ isContinuation, response |-> NoResponse]
  ELSE handleMessageMerged(
         got, isContinuation, intentResult,
         Spread(Spread(Spread(IF got.session.conversationState.open
                              THEN got.session.conversationState.collectedInfo
                              ELSE <<>>,
                              got.session.entities),
                       flattenEntities(ruleBasedEntities)),
                intentResult.entities),
         userMessage, sessionId, now)

\* step 0: a continuation keeps the intent of the dialogue state and does
\* not call the classifier
handleMessageContinued(got, continuation, userMessage, sessionId, ready, raw, now) ==
  handleMessageExtracted(
    got, continuation.shouldContinue,
    IF continuation.shouldContinue
    THEN [success |-> TRUE, intent |-> continuation.intent,
          entities |-> <<>>, requiresHuman |-> FALSE]
    ELSE classifyIntent(raw),
    extractAllEntities(userMessage), userMessage, sessionId, ready, now)

handleMessageWithSession(got, userMessage, sessionId, ready, raw, now) ==
  handleMessageContinued(
    got,
    checkIntentContinuation(got.session, userMessage,
                            detectInfoProviding(userMessage), now),
    userMessage, sessionId, ready, raw, now)

\* sess is the sessions map, db the outcome of the history read, ready
\* whether the classifier is initialised, raw the answer of the language
\* model; gives the sessions map after the turn, the value returned and
\* whether the classifier was called
handleMessage(sess, userMessage, sessionId, db, ready, raw, now) ==
  handleMessageWithSession(getOrCreateSession(sess, sessionId, db),
                           userMessage, sessionId, ready, raw, now)

(***************************************************************************)
(* Time.  The clock counts whole minutes from a Sunday 00:00 in the        *)
(* region's time zone.  The clock of the model stays away from the hour    *)
(* after midnight: how hour 0 is printed there depends on the runtime.     *)
(***************************************************************************)
MinutesPerDay == 1440

MinutesPerHour == 60

\* weekday: 'short' mapped to 0 (Sun) .. 6 (Sat)
DayOfWeek(t) == (t \div MinutesPerDay) % 7

\* hour: '2-digit', minute: '2-digit', hour12: false
FormatTime(t) ==
  padStart2(toString((t % MinutesPerDay) \div MinutesPerHour))
    \o <<":">> \o padStart2(toString(t % MinutesPerHour))

\* the UTF-16 code unit of a character of a formatted time
CharCode(c) == IF c \in Digits THEN 48 + DigitValue[c] ELSE 58

\* a <= b on strings (comparison by code units)
RECURSIVE StringLeq(_, _)
StringLeq(a, b) ==
  IF a = <<>> THEN TRUE
  ELSE IF b = <<>> THEN FALSE
  ELSE IF CharCode(Head(a)) # CharCode(Head(b))
  THEN CharCode(Head(a)) < CharCode(Head(b))
  ELSE StringLeq(Tail(a), Tail(b))

(***************************************************************************)
(* workingHoursService (part_009) and scheduledTasks (part_007).  The      *)
(* model has one region, whose settings hold a complete workingHours       *)
(* object with a short working day.                                        *)
(***************************************************************************)
DefaultRegion == "region-1"

RegionWorkingHours ==
  [start |-> <<"0", "9", ":", "0", "0">>, end |-> <<"0", "9", ":", "0", "6">>,
   timezone |-> "Asia/Taipei", workDays |-> <<1, 2, 3, 4, 5>>]

\* a second region, whose working day begins three minutes before midnight
LateRegion == "region-2"

LateWorkingHours ==
  [start |-> <<"2", "3", ":", "5", "7">>, end |-> <<"2", "3", ":", "5", "9">>,
   timezone |-> "Asia/Taipei", workDays |-> <<1, 2, 3, 4, 5>>]

DEFAULT_WORKING_HOURS ==
  [start |-> <<"0", "9", ":", "0", "0">>, end |-> <<"1", "8", ":", "0", "0">>,
   timezone |-> "Asia/Taipei", workDays |-> <<1, 2, 3, 4, 5>>]

\* { ...DEFAULT_WORKING_HOURS, ...settings.workingHours }
getWorkingHoursConfig(regionId) ==
  [k \in DOMAIN DEFAULT_WORKING_HOURS |->
     IF k \in DOMAIN RegionWorkingHours THEN RegionWorkingHours[k]
     ELSE DEFAULT_WORKING_HOURS[k]]

isWithinWorkingHours(regionId, now) ==
  LET config == getWorkingHoursConfig(regionId)
      currentDay == DayOfWeek(now)
      currentTime == FormatTime(now)
  IN IF currentDay \notin Range(config.workDays) THEN FALSE
     ELSE StringLeq(config.start, currentTime)
            /\ StringLeq(currentTime, config.end)

\* region?.settings?.workingHours || { the default object }
getWorkingHours(regionId) ==
  IF regionId = LateRegion THEN LateWorkingHours ELSE RegionWorkingHours

\* the window after the start of work in which the sweep promotes, minutes
StartWindow == 5

\* 'HH:MM'.split(':').map(Number) as minutes of the day
MinutesOf(hhmm) ==
  parseInt(SubSeq(hhmm, 1, 2)) * MinutesPerHour + parseInt(SubSeq(hhmm, 4, 5))

isWorkStartTime(workingHours, now) ==
  LET currentTime == FormatTime(now)
      dayOfWeek == DayOfWeek(now)
      startMinutes == MinutesOf(workingHours.start)
      currentMinutes == MinutesOf(currentTime)
  IN IF dayOfWeek \notin Range(workingHours.workDays) THEN FALSE
     ELSE currentMinutes >= startMinutes
            /\ currentMinutes <= startMinutes + StartWindow

(***************************************************************************)
(* humanHandoffService.js and conversationService.js.  The conversation    *)
(* table is a sequence of rows in creation order; null is "" for a text    *)
(* column and NullTime for a time column.                                  *)
(***************************************************************************)
NullTime == -1

OFF_HOURS_PENDING == "OFF_HOURS_PENDING"

\* a mapping without the urgent level
getPriorityByVipLevel_NoUrgent(vipLevel) ==
  IF vipLevel >= 2 THEN 4 ELSE 3

getPriorityByVipLevel(vipLevel) ==
  IF vipLevel >= 4 THEN 5 ELSE IF vipLevel >= 2 THEN 4 ELSE 3

\* an inline mapping of the sweep without the urgent level
SweepPriority_NoUrgent(vipLevel) ==
  IF vipLevel >= 2 THEN 4 ELSE 3

\* const priority = vipLevel >= 4 ? 5 : (vipLevel >= 2 ? 4 : 3) of the sweep
SweepPriority(vipLevel) ==
  IF vipLevel >= 4 THEN 5 ELSE (IF vipLevel >= 2 THEN 4 ELSE 3)

\* the row after handoffToHuman(conversationId, reason, { priority })
handoffToHuman(conv, reason, priority, now) ==
  LET updated == [conv EXCEPT !.status = "WAITING",
                              !.botHandoffReason = reason,
                              !.botHandoffAt = now]
  IN IF priority >= 1 /\ priority <= 5
     THEN [updated EXCEPT !.priority = priority] ELSE updated

\* a markOffHoursPending that also puts the conversation in the queue
markOffHoursPending_Queues(conv) ==
  [conv EXCEPT !.status = "WAITING", !.botHandoffReason = OFF_HOURS_PENDING]

\* the row after markOffHoursPending(conversationId)
markOffHoursPending(conv) ==
  [conv EXCEPT !.botHandoffReason = OFF_HOURS_PENDING]

\* the id of the n-th conversation row (a UUID)
ConversationId(n) ==
  <<"0", "0", "0", "0", "0", "0", "0", "0", "-", "0", "0", "0", "0", "-",
    "4", "0", "0", "0", "-", "8", "0", "0", "0", "-",
    "0", "0", "0", "0", "0", "0", "0", "0", "0", "0", "0">>
    \o toString(n)

\* findFirst({ where: { customerId, status: { not: 'CLOSED' } },
\*             orderBy: { createdAt: 'desc' } }): its row number, 0 if none
OpenConversations(convs, customerId) ==
  {i \in 1..Len(convs) :
     convs[i].customerId = customerId /\ convs[i].status # "CLOSED"}

\* the row prisma.conversation.create builds in getOrCreateConversation
NewConversation(n, customerId, regionId, now) ==
  [id |-> ConversationId(n), customerId |-> customerId,
   regionId |-> regionId, status |-> "BOT", priority |-> 3,
   botHandoffReason |-> "", botHandoffAt |-> NullTime,
   assignedAgentId |-> "", createdAt |-> now, closedAt |-> NullTime]

\* getConversationHistory(conversationId, 20) over the rows of the
\* message table of one conversation, oldest first
getConversationHistory(msgs, limit) ==
  LET recent == LastN(msgs, limit)
  IN [i \in 1..Len(recent) |->
        [role |-> IF recent[i].senderType = "CUSTOMER" THEN "user"
                  ELSE "assistant",
         content |-> recent[i].content]]

\* a getQueuePosition that counts the conversations of every region
getQueuePosition_AnyRegion(convs, n) ==
  IF n \notin 1..Len(convs) \/ convs[n].status # "WAITING" THEN 0
  ELSE Cardinality(
         {i \in 1..Len(convs) :
            /\ convs[i].status = "WAITING"
            /\ \/ convs[i].priority > convs[n].priority
               \/ /\ convs[i].priority = convs[n].priority
                  /\ convs[i].botHandoffAt # NullTime
                  /\ convs[i].botHandoffAt < convs[n].botHandoffAt}) + 1

\* getQueuePosition(conversationId) for row n: 0 when it is not waiting
getQueuePosition(convs, n) ==
  IF n \notin 1..Len(convs) \/ convs[n].status # "WAITING" THEN 0
  ELSE Cardinality(
         {i \in 1..Len(convs) :
            /\ convs[i].status = "WAITING"
            /\ convs[i].regionId = convs[n].regionId
            /\ \/ convs[i].priority > convs[n].priority
               \/ /\ convs[i].priority = convs[n].priority
                  /\ convs[i].botHandoffAt # NullTime
                  /\ convs[i].botHandoffAt < convs[n].botHandoffAt}) + 1

(***************************************************************************)
(* Bounds and inputs.                                                      *)
(***************************************************************************)
\* the clock starts on a Friday at 08:59 and runs for this many minutes of
\* each day
MaxMinutes == 8

\* the number of days the clock runs over (Friday, Saturday, ...)
MaxDays == 2

\* turns of one dialogue through the test interface
MaxTurns == 2

\* turns of one booking dialogue through the test interface
MaxBookingTurns == 4

StartOfClock == 5 * MinutesPerDay + 8 * MinutesPerHour + 59

\* the session id of the command-line and HTTP test interface (not a UUID)
DirectSessionId == <<"t", "e", "s", "t", "-", "b", "o", "o", "k", "i", "n", "g">>

\* messages a user sends
MsgBook == <<"u6211", "u60f3", "u8a02", "u53bb", "u6771", "u4eac", "u7684", "u6a5f", "u7968">>

MsgDate == <<"3", "/", "2", "6">>

MsgPassengers == <<"2", "u4f4d">>

MsgConfirm == <<"u78ba", "u8a8d">>

MsgTaxId == <<"u7d71", "u4e00", "u7de8", "u865f">>

MsgQuestion == <<"u8acb", "u554f", "u6539", "u7968", "u8cbb", "u7528", "u662f", "u591a", "u5c11", "u5462", "uff1f">>

\* a date in a sentence of more than ten characters
MsgLongDate ==
  <<"u660e", "u5929", "u4e0b", "u5348", "u51fa", "u767c", "u7684", "u73ed", "u6a5f", "u90fd", "u53ef", "u4ee5", "u8b1d", "u8b1d">>

Messages == {MsgBook, MsgDate, MsgLongDate, MsgTaxId, MsgQuestion}

\* a parsed answer of the language model
Answer(intent, entities, requires_human) ==
  [parsed |-> TRUE, intent |-> intent, entities |-> entities,
   requires_human |-> requires_human]

\* an answer without JSON, or a failed call
NoAnswer ==
  [parsed |-> FALSE, intent |-> "", entities |-> <<>>,
   requires_human |-> FALSE]

\* the messages and the answers of the booking dialogue
BookingMessages == {MsgBook, MsgDate, MsgPassengers, MsgConfirm}

BookingAnswers ==
  { Answer("TICKET_BOOK", ("DESTINATION" :> <<"u6771", "u4eac">>), FALSE),
    Answer("TICKET_BOOK", <<>>, FALSE) }

\* the answers of the language model the turns are run with
RawAnswers ==
  { Answer("TICKET_BOOK", ("DESTINATION" :> <<"u6771", "u4eac">>), FALSE),
    Answer("QUOTE_REQUEST", <<>>, FALSE),
    NoAnswer }

(***************************************************************************)
(* State.                                                                  *)
(***************************************************************************)
VARIABLES
  now,            \* the clock, minutes
  model,          \* whether initIntentClassifier has set the model
  sessions,       \* the sessions Map of intentRouter.js
  lastTurn,       \* the last call of handleMessage: arguments and result
  conversations,  \* the conversation table
  messages,       \* the message table, per conversation row
  vipLevel,       \* the vipLevel column of the customer table
  lastEvent,      \* the last LINE event handled
  lastSweep,      \* the last run of processOffHoursPendingConversations:
                  \* what it returned and, when rows were pending, when it
                  \* ran, on which rows, and the marks of the rows then
  lastQueue,      \* the last answer of GET /api/agent/queue
  markedAt,       \* when each row was last marked OFF_HOURS_PENDING
  calls,          \* the calls of handleMessage that await classifyIntent
  arrivals,       \* per session, the messages in their order of arrival
  awaits          \* the handlers that await the database between a read and
                  \* the write that follows it; an accept stays with the
                  \* response it was given

vars ==
  <<now, model, sessions, lastTurn, conversations, messages, vipLevel,
    lastEvent, lastSweep, lastQueue, markedAt, calls, arrivals, awaits>>

callVars == <<calls, arrivals, awaits>>

routerVars == <<model, sessions, lastTurn>>

handoffVars ==
  <<conversations, messages, vipLevel, lastEvent, lastSweep, lastQueue,
    markedAt>>

\* the state of the dialogue of a session before a turn
StateOf(sess, sessionId) ==
  IF sessionId \in DOMAIN sess THEN sess[sessionId].conversationState
  ELSE NoState

\* the record of a call handleMessage(userMessage, sessionId): what went in
\* (the message, the dialogue state before, whether the history read of a
\* UUID failed, the answer the language model had ready) and what came out
\* (the result, what the handler returned, the dialogue state after)
TurnRecord(sess, userMessage, sessionId, db, raw, outcome, at) ==
  [done |-> TRUE, sessionId |-> sessionId, userMessage |-> userMessage,
   at |-> at, before |-> StateOf(sess, sessionId),
   readFailed |-> isUUID(sessionId) /\ ~ db.ok, raw |-> raw,
   result |-> outcome.result, classified |-> outcome.classified,
   response |-> outcome.response,
   after |-> StateOf(outcome.sessions, sessionId)]

NoTurn == [done |-> FALSE]

(***************************************************************************)
(* The LINE channel, the agents and the tables.                            *)
(***************************************************************************)
\* LINE users; each is one row of the customer table
LineUsers == {"U1", "U2"}

\* the customer whose VIP level the CRM edits
CrmCustomers == {"U2"}

VipLevels == 0..5

Agents == {"agent-1"}

\* rows of the conversation table
MaxConversations == 2

\* LINE events of one conversation
MaxEvents == 2

\* what the LINE users of the model write, and what the language model
\* answers to them
LineMessages == {MsgBook}

\* the customer of the sweep
SweepUsers == {"U1"}

LineAnswers ==
  { Answer("TRANSFER_AGENT", <<>>, TRUE),
    Answer("GREETING", <<>>, FALSE) }

\* the texts handleLineEventWithPersistence and the sweep add to a reply
HandoffNotice == Reply("HANDOFF_NOTICE")

OffHoursNotice == Reply("OFF_HOURS_NOTICE")

SweepNotice == Reply("OFF_HOURS_TO_QUEUE")

\* the row saveMessage(conversationId, senderType, content) creates
Message(senderType, content) == [senderType |-> senderType, content |-> content]

\* the customer messages among the rows of a conversation
CustomerMessages(msgs) ==
  {i \in 1..Len(msgs) : msgs[i].senderType = "CUSTOMER"}

\* result.intent || 'USER_REQUEST'
ReasonOf(result) ==
  IF result.intent \in {"undefined", ""} THEN "USER_REQUEST" ELSE result.intent

NoEvent == [done |-> FALSE]

NoSweep == [done |-> FALSE]

NoQueue == [done |-> FALSE]

Init ==
  /\ now = StartOfClock
  /\ model \in BOOLEAN
  /\ sessions = <<>>
  /\ lastTurn = NoTurn
  /\ conversations = <<>>
  /\ messages = <<>>
  /\ vipLevel = [u \in LineUsers |-> 0]
  /\ lastEvent = NoEvent
  /\ lastSweep = NoSweep
  /\ lastQueue = NoQueue
  /\ markedAt = <<>>
  /\ calls = <<>>
  /\ arrivals = <<>>
  /\ awaits = <<>>

\* d minutes pass
Wait(d) ==
  /\ (now + d - StartOfClock) % MinutesPerDay <= MaxMinutes
  /\ (now + d - StartOfClock) \div MinutesPerDay < MaxDays
  /\ now' = now + d
  /\ UNCHANGED <<routerVars, handoffVars, callVars>>

\* handleMessage(userMessage, sessionId) called through the test or HTTP
\* interface, in a dialogue of at most maxTurns turns; db is what the
\* history read does when sessionId is a UUID
DirectTurn(sessionId, userMessage, raw, db, maxTurns) ==
  /\ sessionId \in DOMAIN sessions
       => Len(sessions[sessionId].history) < 2 * maxTurns
  /\ \E outcome \in {handleMessage(sessions, userMessage, sessionId, db,
                                    model, raw, now)} :
       /\ sessions' = outcome.sessions
       /\ lastTurn' = TurnRecord(sessions, userMessage, sessionId, db, raw,
                                 outcome, now)
  /\ UNCHANGED <<now, model, handoffVars, callVars>>

\* the row getOrCreateConversation finds for a customer or will create
ConversationRow(convs, customerId) ==
  LET open == OpenConversations(convs, customerId)
  IN IF open = {} THEN Len(convs) + 1
     ELSE CHOOSE i \in open :
            \A j \in open : convs[j].createdAt <= convs[i].createdAt

\* the rest of handleLineEventWithPersistence once handleMessage has
\* returned outcome for the conversation of row n
ReplyToLine(user, userMessage, n, convs1, msgs1, record, outcome) ==
  \E result \in {outcome.result},
     withinWorkingHours \in {isWithinWorkingHours(DefaultRegion, now)} :
    LET conversation == convs1[n]
        handoffPerformed == result.requiresHuman /\ withinWorkingHours
        marked == result.requiresHuman /\ ~ withinWorkingHours
        updated ==
          IF handoffPerformed
          THEN handoffToHuman(conversation, ReasonOf(result),
                              getPriorityByVipLevel(vipLevel[user]), now)
          ELSE IF marked THEN markOffHoursPending(conversation)
          ELSE conversation
        replyMessages ==
          IF handoffPerformed THEN <<result.reply, HandoffNotice>>
          ELSE IF marked THEN <<OffHoursNotice>>
          ELSE <<result.reply>>
    IN /\ conversations' = [convs1 EXCEPT ![n] = updated]
       /\ messages' =
            [msgs1 EXCEPT ![n] = Append(@, Message("BOT", replyMessages))]
       /\ sessions' = outcome.sessions
       /\ lastTurn' = record
       /\ lastEvent' =
            [done |-> TRUE, row |-> n, handledByAgent |-> FALSE,
             before |-> conversation, after |-> updated, at |-> now,
             requiresHuman |-> result.requiresHuman,
             withinWorkingHours |-> withinWorkingHours,
             vipLevel |-> vipLevel[user],
             handoffPerformed |-> handoffPerformed,
             replyMessages |-> replyMessages]
       /\ markedAt' = IF marked THEN (n :> now) @@ markedAt ELSE markedAt

\* a test that sends every conversation to the router
HandledByAgent_Never(conv) == conv.status = "ASSIGNED" /\ conv.status = "BOT"

\* if (conversation.status === 'ASSIGNED'): an agent has the conversation
HandledByAgent(conv) == conv.status = "ASSIGNED"

\* handleLineEventWithPersistence from the row n that
\* getOrCreateConversation gave, which it created when isNew
LineEventOn(user, userMessage, raw, dbOk, n, isNew) ==
    LET convs1 == IF isNew
                  THEN Append(conversations,
                              NewConversation(n, user, DefaultRegion, now))
                  ELSE conversations
        msgs0 == IF isNew THEN Append(messages, <<>>) ELSE messages
        msgs1 == [msgs0 EXCEPT
                    ![n] = Append(@, Message("CUSTOMER", userMessage))]
        db == [ok |-> dbOk, history |-> getConversationHistory(msgs1[n], 20)]
    IN /\ IF isNew THEN Len(conversations) < MaxConversations
          ELSE Cardinality(CustomerMessages(messages[n])) < MaxEvents
       /\ IF HandledByAgent(convs1[n])
          THEN /\ conversations' = convs1
               /\ messages' = msgs1
               /\ lastEvent' =
                    [done |-> TRUE, row |-> n, handledByAgent |-> TRUE,
                     before |-> convs1[n], after |-> convs1[n],
                     at |-> now]
               /\ UNCHANGED <<sessions, lastTurn, markedAt>>
          ELSE \E outcome \in {handleMessage(sessions, userMessage,
                                             convs1[n].id, db, model, raw,
                                             now)} :
                 ReplyToLine(user, userMessage, n, convs1, msgs1,
                             TurnRecord(sessions, userMessage, convs1[n].id,
                                        db, raw, outcome, now),
                             outcome)
       /\ UNCHANGED <<now, model, vipLevel, lastSweep, lastQueue>>

\* handleLineEventWithPersistence for a text message of a LINE user; dbOk
\* is whether the history read of getOrCreateSession succeeds
LineEvent(user, userMessage, raw, dbOk) ==
  /\ \E n \in {ConversationRow(conversations, user)} :
       LineEventOn(user, userMessage, raw, dbOk, n, n > Len(conversations))
  /\ UNCHANGED callVars

\* 24 hours, in minutes
PendingLimit == 1440

\* a sweep that never takes a row for its age
HandoffIsOld_Never(conv, at) == FALSE

\* hoursSinceHandoff >= 24, hoursSinceHandoff being 24 without botHandoffAt
HandoffIsOld(conv, at) ==
  IF conv.botHandoffAt # NullTime
  THEN at - conv.botHandoffAt >= PendingLimit
  ELSE PendingLimit >= PendingLimit

\* a query that does not filter on status
PendingRows_AnyStatus(convs) ==
  {i \in 1..Len(convs) : convs[i].botHandoffReason = OFF_HOURS_PENDING}

\* the rows findMany gives the sweep
PendingRows(convs) ==
  {i \in 1..Len(convs) :
     convs[i].status = "BOT" /\ convs[i].botHandoffReason = OFF_HOURS_PENDING}

shouldProcess(conv, at) ==
  isWorkStartTime(getWorkingHours(conv.regionId), at) \/ HandoffIsOld(conv, at)

\* processOffHoursPendingConversations, run by the timer of
\* startScheduledTasks or by triggerOffHoursProcessing
Sweep ==
  LET pending == PendingRows(conversations)
      promoted == {i \in pending : shouldProcess(conversations[i], now)}
  IN /\ conversations' =
          [i \in 1..Len(conversations) |->
             IF i \in promoted
             THEN [conversations[i] EXCEPT
                     !.status = "WAITING",
                     !.priority =
                        SweepPriority(vipLevel[conversations[i].customerId]),
                     !.botHandoffAt = now]
             ELSE conversations[i]]
     /\ messages' =
          [i \in 1..Len(messages) |->
             IF i \in promoted
             THEN Append(messages[i], Message("BOT", <<SweepNotice>>))
             ELSE messages[i]]
     /\ lastSweep' =
          IF pending = {} THEN [done |-> TRUE, processed |-> 0, at |-> now]
          ELSE [done |-> TRUE, processed |-> Cardinality(promoted),
                skipped |-> Cardinality(pending \ promoted),
                total |-> Cardinality(pending),
                at |-> now, pending |-> pending, promoted |-> promoted,
                marks |-> markedAt]
     /\ UNCHANGED <<callVars, now, routerVars, vipLevel, lastEvent, lastQueue, markedAt>>

\* orderBy: [{ priority: 'desc' }, { createdAt: 'asc' }]
QueueOrder(a, b) ==
  a.priority > b.priority
    \/ (a.priority = b.priority /\ a.createdAt <= b.createdAt)

\* the orders in which findMany may give the waiting rows
QueueOrders(convs) ==
  LET waiting == {i \in 1..Len(convs) : convs[i].status = "WAITING"}
      k == Cardinality(waiting)
  IN {q \in [1..k -> waiting] :
        /\ \A i, j \in 1..k : i # j => q[i] # q[j]
        /\ \A i, j \in 1..k : i < j => QueueOrder(convs[q[i]], convs[q[j]])}

\* GET /api/agent/queue
ListQueue ==
  /\ \E q \in QueueOrders(conversations) :
       lastQueue' = [done |-> TRUE,
                     queue |-> [i \in 1..Len(q) |-> conversations[q[i]]]]
  /\ UNCHANGED <<callVars, now, routerVars, conversations, messages, vipLevel,
                 lastEvent, lastSweep, markedAt>>

WelcomeMessage == Reply("WELCOME_SIGNATURE")

ClosedMessage == Reply("CONVERSATION_CLOSED")

\* a loop that ends at the first promotion that raises
Survivors_Stops(rows, failed) ==
  {i \in rows \ failed : \A f \in failed : i < f}

\* the rows whose promotion completes when that of the rows of failed
\* raises: catch (err) inside the for loop
Survivors(rows, failed) == rows \ failed

\* a run of processOffHoursPendingConversations in which the update of the
\* rows of updateFails and the message of the rows of createFails raise: the
\* catch inside the loop logs the error and the loop goes on
SweepWithFailures(updateFails, createFails) ==
  LET pending == PendingRows(conversations)
      due == {i \in pending : shouldProcess(conversations[i], now)}
      updated == Survivors(due, updateFails)
      processed == Survivors(due, updateFails \cup createFails)
  IN /\ updateFails \cup createFails \subseteq due
     /\ updateFails \cup createFails # {}
     /\ conversations' =
          [i \in 1..Len(conversations) |->
             IF i \in updated
             THEN [conversations[i] EXCEPT
                     !.status = "WAITING",
                     !.priority =
                        SweepPriority(vipLevel[conversations[i].customerId]),
                     !.botHandoffAt = now]
             ELSE conversations[i]]
     /\ messages' =
          [i \in 1..Len(messages) |->
             IF i \in processed
             THEN Append(messages[i], Message("BOT", <<SweepNotice>>))
             ELSE messages[i]]
     /\ lastSweep' =
          [done |-> TRUE, processed |-> Cardinality(processed),
           skipped |-> Cardinality(pending \ due),
           total |-> Cardinality(pending),
           at |-> now, pending |-> pending, promoted |-> processed,
           marks |-> markedAt, due |-> due,
           failed |-> (updateFails \cup createFails) \cap due,
           after |-> conversations']
     /\ UNCHANGED <<callVars, now, routerVars, vipLevel, lastEvent, lastQueue, markedAt>>

\* POST /api/agent/accept/:conversationId by an online agent; pushOk is
\* whether the welcome message reaches LINE
Accept(agent, n, pushOk) ==
  /\ n \in 1..Len(conversations)
  /\ conversations[n].status = "WAITING"
  /\ conversations' = [conversations EXCEPT ![n].status = "ASSIGNED",
                                            ![n].assignedAgentId = agent]
  /\ messages' = IF pushOk
                 THEN [messages EXCEPT
                         ![n] = Append(@, Message("AGENT", <<WelcomeMessage>>))]
                 ELSE messages
  /\ UNCHANGED <<callVars, now, routerVars, vipLevel, lastEvent, lastSweep, lastQueue,
                 markedAt>>

\* ROLES.SUPER_ADMIN and the role of an agent of a region
SUPER_ADMIN == "SUPER_ADMIN"

AGENT == "AGENT"

\* POST /api/agent/close/:conversationId by the assigned agent or by a
\* super administrator
Close(agent, role, n) ==
  /\ n \in 1..Len(conversations)
  /\ conversations[n].assignedAgentId = agent \/ role = SUPER_ADMIN
  /\ conversations[n].status # "CLOSED"
  /\ conversations' = [conversations EXCEPT ![n].status = "CLOSED",
                                            ![n].closedAt = now]
  /\ messages' = [messages EXCEPT
                    ![n] = Append(@, Message("BOT", <<ClosedMessage>>))]
  /\ UNCHANGED <<callVars, now, routerVars, vipLevel, lastEvent, lastSweep, lastQueue,
                 markedAt>>

\* the entry of the sessions Map for one session id
Restrict(sess, sessionId) ==
  [id \in DOMAIN sess \cap {sessionId} |-> sess[id]]

RemoveAt(s, k) == SubSeq(s, 1, k - 1) \o SubSeq(s, k + 1, Len(s))

TransferMessage == Reply("CONVERSATION_TRANSFERRED")

\* transfers of one conversation
MaxTransfers == 1

\* the transfer messages among the rows of a conversation
Transfers(msgs) ==
  {i \in 1..Len(msgs) : msgs[i].content = <<TransferMessage>>}

\* a transfer that also puts the conversation back in the queue
Transfer_Requeues(agent, role, targetAgentId, n) ==
  /\ n \in 1..Len(conversations)
  /\ conversations[n].assignedAgentId = agent \/ role = SUPER_ADMIN
  /\ Cardinality(Transfers(messages[n])) < MaxTransfers
  /\ conversations' =
       [conversations EXCEPT ![n].assignedAgentId = targetAgentId,
                             ![n].status = "WAITING",
                             ![n].botHandoffAt = now]
  /\ messages' =
       [messages EXCEPT ![n] = Append(@, Message("BOT", <<TransferMessage>>))]
  /\ UNCHANGED <<callVars, now, routerVars, vipLevel, lastEvent, lastSweep, lastQueue, markedAt>>

\* POST /api/agent/transfer/:conversationId by the assigned agent or by a
\* super administrator, to an agent who is online in the same region
Transfer(agent, role, targetAgentId, n) ==
  /\ n \in 1..Len(conversations)
  /\ conversations[n].assignedAgentId = agent \/ role = SUPER_ADMIN
  /\ Cardinality(Transfers(messages[n])) < MaxTransfers
  /\ conversations' = [conversations EXCEPT
                          ![n].assignedAgentId = targetAgentId]
  /\ messages' = [messages EXCEPT
                    ![n] = Append(@, Message("BOT", <<TransferMessage>>))]
  /\ UNCHANGED <<callVars, now, routerVars, vipLevel, lastEvent, lastSweep, lastQueue,
                 markedAt>>

\* handleLineEventWithPersistence up to the await of classifyIntent inside
\* handleMessage: the conversation row is read, the message of the customer
\* is stored, the session is built.  The handler keeps the row it has read
LineEventArrives(user, userMessage, dbOk) ==
  \E n \in {ConversationRow(conversations, user)} :
    LET isNew == n > Len(conversations)
        convs1 == IF isNew
                  THEN Append(conversations,
                              NewConversation(n, user, DefaultRegion, now))
                  ELSE conversations
        msgs0 == IF isNew THEN Append(messages, <<>>) ELSE messages
        msgs1 == [msgs0 EXCEPT
                    ![n] = Append(@, Message("CUSTOMER", userMessage))]
        db == [ok |-> dbOk, history |-> getConversationHistory(msgs1[n], 20)]
    IN /\ IF isNew THEN Len(conversations) < MaxConversations
          ELSE Cardinality(CustomerMessages(messages[n])) < MaxEvents
       /\ model
       /\ conversations' = convs1
       /\ messages' = msgs1
       /\ IF HandledByAgent(convs1[n])
          THEN /\ lastEvent' =
                    [done |-> TRUE, row |-> n, handledByAgent |-> TRUE,
                     before |-> convs1[n], after |-> convs1[n],
                     at |-> now]
               /\ UNCHANGED <<sessions, calls>>
          ELSE \E got \in {getOrCreateSession(sessions, convs1[n].id, db)} :
                 /\ ~ checkIntentContinuation(got.session, userMessage,
                                              detectInfoProviding(userMessage),
                                              now).shouldContinue
                 /\ sessions' = got.sessions
                 /\ calls' =
                      Append(calls,
                             [sessionId |-> convs1[n].id,
                              userMessage |-> userMessage, db |-> db,
                              session |-> got.session, seq |-> 0,
                              base |-> Restrict(sessions, convs1[n].id),
                              during |-> <<>>, startedAt |-> now,
                              answered |-> FALSE, raw |-> NoAnswer,
                              user |-> user, row |-> n])
                 /\ UNCHANGED lastEvent
       /\ UNCHANGED <<now, model, lastTurn, vipLevel, lastSweep, lastQueue,
                      markedAt, arrivals, awaits>>

\* the rest of handleLineEventWithPersistence for the waiting call number
\* k, once classifyIntent has answered raw: the handoff is written to the
\* row as it is now
LineEventReturns(k, raw) ==
  /\ k \in 1..Len(calls)
  /\ "row" \in DOMAIN calls[k]
  /\ \E call \in {calls[k]} :
     \E got \in {[session |-> IF call.session.isFromDatabase
                              THEN call.session
                              ELSE sessions[call.sessionId],
                  sessions |-> sessions]} :
     \E outcome \in
          {handleMessageExtracted(got, FALSE, classifyIntent(raw),
                                  extractAllEntities(call.userMessage),
                                  call.userMessage, call.sessionId, TRUE,
                                  now)} :
       ReplyToLine(call.user, call.userMessage, call.row, conversations,
                   messages,
                   TurnRecord(sessions, call.userMessage, call.sessionId,
                              call.db, raw, outcome, now),
                   outcome)
  /\ calls' = RemoveAt(calls, k)
  /\ UNCHANGED <<now, model, vipLevel, lastSweep, lastQueue, arrivals, awaits>>

\* PUT of a customer with a vipLevel (routes/tags.js)
SetVip(customer, level) ==
  /\ vipLevel[customer] # level
  /\ vipLevel' = [vipLevel EXCEPT ![customer] = level]
  /\ UNCHANGED <<callVars, now, routerVars, conversations, messages, lastEvent,
                 lastSweep, lastQueue, markedAt>>

(***************************************************************************)
(* Specifications: the dialogue router driven through its test interface,  *)
(* and the LINE channel with the handoff to agents.                        *)
(***************************************************************************)
\* the minutes the user of the test interface lets pass between messages
RouterDelays == {5, 6}

\* the history read of a session whose id is not a UUID is never made
NoRead == [ok |-> FALSE]

NextRouter ==
  \/ \E d \in RouterDelays : Wait(d)
  \/ \E m \in Messages, raw \in RawAnswers :
       DirectTurn(DirectSessionId, m, raw, NoRead, MaxTurns)

SpecRouter == Init /\ [][NextRouter]_vars

NextBooking ==
  \/ \E d \in RouterDelays : Wait(d)
  \/ \E m \in BookingMessages, raw \in BookingAnswers :
       DirectTurn(DirectSessionId, m, raw, NoRead, MaxBookingTurns)

SpecBooking == Init /\ [][NextBooking]_vars

\* the history read of a UUID that has no rows: it fails or gives no rows
StoreReads == {[ok |-> FALSE], [ok |-> TRUE, history |-> <<>>]}

StoreMessages == {MsgBook, MsgDate, MsgTaxId}

NextStore ==
  \/ \E d \in RouterDelays : Wait(d)
  \/ \E m \in StoreMessages, raw \in BookingAnswers, db \in StoreReads :
       DirectTurn(ConversationId(1), m, raw, db, MaxTurns)

SpecStore == Init /\ [][NextStore]_vars

\* the LINE channel with one customer, whose VIP level the CRM edits
Next ==
  \/ Wait(1)
  \/ \E u \in CrmCustomers, m \in LineMessages, raw \in LineAnswers :
       LineEvent(u, m, raw, TRUE)
  \/ \E c \in CrmCustomers, v \in VipLevels : SetVip(c, v)

Spec == Init /\ [][Next]_vars

\* the steps of the clock and the VIP levels of the queue
QueueDelays == {3}

QueueVipLevels == {0, 4}

\* the agent queue with two customers
NextQueue ==
  \/ \E d \in QueueDelays : Wait(d)
  \/ \E u \in LineUsers, m \in LineMessages, raw \in LineAnswers :
       LineEvent(u, m, raw, TRUE)
  \/ \E c \in CrmCustomers, v \in QueueVipLevels : SetVip(c, v)
  \/ ListQueue
  \/ \E a \in Agents, n \in 1..MaxConversations : Accept(a, n, FALSE)

SpecQueue == Init /\ [][NextQueue]_vars

\* the sweep of off-hours conversations over two days; the clock moves by
\* two minutes or by a day
SweepDelays == {2}

NextSweep ==
  \/ \E d \in SweepDelays : Wait(d)
  \/ Wait(MinutesPerDay)
  \/ \E u \in SweepUsers, m \in LineMessages, raw \in LineAnswers :
       LineEvent(u, m, raw, TRUE)
  \/ Sweep

SpecSweep == Init /\ [][NextSweep]_vars

\* the desk: a customer writes, the sweep runs, two agents accept, transfer
\* and close, one of them a super administrator; a LINE event may wait for
\* the classifier while the others act
DeskAgents == {"agent-1", "agent-2"}

RoleOf(agent) == IF agent = "agent-2" THEN SUPER_ADMIN ELSE AGENT

\* a LINE event of a customer none of whose conversations was closed
DeskEvent(user, userMessage) ==
  /\ \A n \in 1..Len(conversations) : conversations[n].status # "CLOSED"
  /\ LineEventArrives(user, userMessage, TRUE)

NextDesk ==
  \/ \E d \in QueueDelays : Wait(d)
  \/ \E u \in SweepUsers, m \in LineMessages : DeskEvent(u, m)
  \/ \E k \in 1..MaxEvents, raw \in LineAnswers : LineEventReturns(k, raw)
  \/ Sweep
  \/ \E a \in DeskAgents, n \in 1..MaxConversations : Accept(a, n, FALSE)
  \/ \E a, b \in DeskAgents, n \in 1..MaxConversations :
       Transfer(a, RoleOf(a), b, n)
  \/ \E a \in DeskAgents, n \in 1..MaxConversations : Close(a, RoleOf(a), n)

SpecDesk == Init /\ [][NextDesk]_vars

\* the queue position asked in tables of conversations of two regions: a
\* row is in the BOT state with no handoff time, or waits with a priority
\* and the time of its handoff
MaxRows == 3

PositionRegions == {DefaultRegion, LateRegion}

PositionPriorities == {3, 5}

PositionTimes == {StartOfClock, StartOfClock + 1}

PositionRow(n, choice) ==
  IF choice.waiting
  THEN [NewConversation(n, <<"U", n>>, choice.regionId, StartOfClock)
          EXCEPT !.status = "WAITING", !.priority = choice.priority,
                 !.botHandoffReason = "TRANSFER_AGENT",
                 !.botHandoffAt = choice.at]
  ELSE NewConversation(n, <<"U", n>>, choice.regionId, StartOfClock)

PositionChoices ==
  [waiting : {TRUE}, regionId : PositionRegions,
   priority : PositionPriorities, at : PositionTimes]
  \cup [waiting : {FALSE}, regionId : PositionRegions]

InitPosition ==
  /\ now = StartOfClock + 1
  /\ model = TRUE
  /\ sessions = <<>>
  /\ lastTurn = NoTurn
  /\ \E choices \in [1..MaxRows -> PositionChoices] :
       conversations = [n \in 1..MaxRows |-> PositionRow(n, choices[n])]
  /\ messages = [n \in 1..MaxRows |-> <<Message("CUSTOMER", MsgBook)>>]
  /\ vipLevel = [u \in LineUsers |-> 0]
  /\ lastEvent = NoEvent
  /\ lastSweep = NoSweep
  /\ lastQueue = NoQueue
  /\ markedAt = <<>>
  /\ calls = <<>>
  /\ arrivals = <<>>
  /\ awaits = <<>>

\* a call of getQueuePosition for the conversation of row n, which may not
\* exist
AskPosition(n) ==
  /\ lastQueue' = [done |-> TRUE, row |-> n,
                   position |-> getQueuePosition(conversations, n)]
  /\ UNCHANGED <<callVars, now, routerVars, conversations, messages, vipLevel,
                 lastEvent, lastSweep, markedAt>>

NextPosition == \E n \in 1..(MaxRows + 1) : AskPosition(n)

SpecPosition == InitPosition /\ [][NextPosition]_vars

\* turns of a dialogue whose second message is short, a question, a word of
\* confirmation or a long sentence
MaxContinuationTurns == 2

\* the confirmation phrases the tests of the dialogue use
ConfirmationPhrases ==
  { <<"u597d">>, <<"u597d", "u7684">>, <<"O", "K">>, <<"u53ef", "u4ee5">>,
    <<"u5c0d">>, <<"u6c92", "u554f", "u984c">>, <<"u662f", "u7684">>,
    <<"u78ba", "u8a8d">>, <<"u78ba", "u5b9a">>, <<"u5c0d", "u7684">> }

\* a sentence of seventeen characters that begins with the word of
\* confirmation
MsgLongConfirm ==
  <<"u78ba", "u8a8d", "u6211", "u525b", "u624d", "u63d0", "u4f9b", "u7684", "u8b77", "u7167", "u8cc7", "u6599", "u90fd", "u6b63", "u78ba", "u7121", "u8aa4">>

\* a question of three characters
MsgShortQuestion == <<"u53ef", "u4ee5", "u55ce">>

\* a short message that names no slot
MsgThanks == <<"u8b1d", "u8b1d">>

ContinuationMessages ==
  ConfirmationPhrases
    \cup {MsgBook, MsgDate, MsgThanks, MsgTaxId, MsgQuestion, MsgLongDate,
          MsgLongConfirm, MsgShortQuestion}

ContinuationAnswers ==
  { Answer("TICKET_BOOK", ("DESTINATION" :> <<"u6771", "u4eac">>), FALSE) }

NextContinuation ==
  \/ \E d \in RouterDelays : Wait(d)
  \/ \E m \in ContinuationMessages, raw \in ContinuationAnswers :
       DirectTurn(DirectSessionId, m, raw, NoRead, MaxContinuationTurns)

SpecContinuation == Init /\ [][NextContinuation]_vars

\* turns whose entities come from several places: the classifier names a
\* destination, or a date other than the one written in the message
MaxMergeTurns == 2

MergeDate == <<"4", "/", "1">>

MergeAnswers ==
  { Answer("TICKET_BOOK", ("DESTINATION" :> <<"u6771", "u4eac">>), FALSE),
    Answer("TICKET_BOOK", ("DESTINATION" :> <<"u5927", "u962a">>), FALSE),
    Answer("TICKET_BOOK", ("date" :> MergeDate), FALSE) }

MergeMessages == {MsgBook, MsgDate}

NextMerge ==
  \/ \E d \in RouterDelays : Wait(d)
  \/ \E m \in MergeMessages, raw \in MergeAnswers :
       DirectTurn(DirectSessionId, m, raw, NoRead, MaxMergeTurns)

SpecMerge == Init /\ [][NextMerge]_vars

\* a long dialogue through the test interface: the number of turns is not
\* bounded, the history is
HistoryMessages == {MsgThanks, MsgQuestion}

HistoryAnswers == { Answer("GREETING", <<>>, FALSE) }

NextHistory ==
  \/ \E d \in RouterDelays : Wait(d)
  \/ \E m \in HistoryMessages, raw \in HistoryAnswers :
       DirectTurn(DirectSessionId, m, raw, NoRead, HistoryLimit)

SpecHistory == Init /\ [][NextHistory]_vars

\* sweeps in which the promotion of some conversations fails, over the
\* pending conversations of two customers who each wrote once
FirstLineEvent(user, userMessage, raw) ==
  /\ OpenConversations(conversations, user) = {}
  /\ LineEvent(user, userMessage, raw, TRUE)

NextSweepFailures ==
  \/ \E d \in SweepDelays : Wait(d)
  \/ \E u \in LineUsers, m \in LineMessages, raw \in LineAnswers :
       FirstLineEvent(u, m, raw)
  \/ Sweep
  \/ \E updateFails, createFails \in SUBSET (1..MaxConversations) :
       SweepWithFailures(updateFails, createFails)

SpecSweepFailures == Init /\ [][NextSweepFailures]_vars

\* the desk without waiting LINE events: each customer writes once, the
\* agents accept, transfer and close
OnlyLineEvent(user, userMessage, raw) ==
  /\ \A n \in 1..Len(conversations) : conversations[n].customerId # user
  /\ LineEvent(user, userMessage, raw, TRUE)

NextTransfer ==
  \/ \E d \in QueueDelays : Wait(d)
  \/ \E u \in LineUsers, m \in LineMessages, raw \in LineAnswers :
       OnlyLineEvent(u, m, raw)
  \/ \E a \in DeskAgents, n \in 1..MaxConversations : Accept(a, n, FALSE)
  \/ \E a, b \in DeskAgents, n \in 1..MaxConversations :
       Transfer(a, RoleOf(a), b, n)
  \/ \E a \in DeskAgents, n \in 1..MaxConversations : Close(a, RoleOf(a), n)

SpecTransfer == Init /\ [][NextTransfer]_vars

\* the timer of startScheduledTasks: a sweep every five minutes, the first
\* one within five minutes of the start of the process.  The process runs
\* on a Monday from 08:55 or from 23:50, with conversations of the two
\* regions that were marked outside the working hours.
SweepInterval == 5

MaxTimerMinutes == 12

TimerStarts ==
  { MinutesPerDay + 8 * MinutesPerHour + 55,
    MinutesPerDay + 23 * MinutesPerHour + 50 }

TimerRegions == {DefaultRegion, LateRegion}

\* the customers who wrote outside the working hours, one row each
TimerUsers == <<"U1", "U2">>

TimerRow(n, regionId, at) ==
  markOffHoursPending(NewConversation(n, TimerUsers[n], regionId, at))

InitTimer ==
  /\ now \in TimerStarts
  /\ model = TRUE
  /\ sessions = <<>>
  /\ lastTurn = NoTurn
  /\ \E regions \in [1..Len(TimerUsers) -> TimerRegions] :
       conversations =
         [n \in 1..Len(TimerUsers) |-> TimerRow(n, regions[n], now)]
  /\ messages =
       [n \in 1..Len(TimerUsers) |->
          <<Message("CUSTOMER", MsgBook), Message("BOT", <<OffHoursNotice>>)>>]
  /\ vipLevel = [u \in LineUsers |-> 0]
  /\ lastEvent = NoEvent
  /\ lastSweep = NoSweep
  /\ lastQueue = NoQueue
  /\ markedAt = [n \in 1..Len(TimerUsers) |-> now]
  /\ calls = <<>>
  /\ arrivals = <<>>
  /\ awaits = <<>>

\* the minutes since the start of the process
Uptime(t) == CHOOSE d \in 0..MaxTimerMinutes : t - d \in TimerStarts

\* the callback of setInterval is due
SweepIsDue ==
  IF lastSweep.done THEN now = lastSweep.at + SweepInterval
  ELSE Uptime(now) = SweepInterval

\* a minute passes; the timer does not let its moment pass
Tick ==
  /\ Uptime(now) < MaxTimerMinutes
  /\ ~ SweepIsDue
  /\ now' = now + 1
  /\ UNCHANGED <<routerVars, handoffVars, callVars>>

\* the callback of setInterval; the first one comes at any moment of the
\* first five minutes, as a process started earlier would have it
TimerSweep ==
  /\ lastSweep.done => SweepIsDue
  /\ Sweep

NextTimer == Tick \/ TimerSweep

SpecTimer == InitTimer /\ [][NextTimer]_vars /\ WF_vars(TimerSweep)

(***************************************************************************)
(* Concurrent calls of handleMessage.  A call runs without interruption    *)
(* from the return of getOrCreateSession to the await of classifyIntent,   *)
(* and from the answer of classifyIntent to its return; a turn that        *)
(* continues the dialogue, or whose classifier is not initialised, never   *)
(* waits.  Other calls run while a call awaits the classifier.             *)
(***************************************************************************)
MaxCalls == 3

ConcurrentSessions == {DirectSessionId, ConversationId(1)}

ConcurrentMessages == {MsgBook, MsgDate, MsgQuestion}

\* the history read of the calls: none for a session id that is not a
\* UUID, no rows for the UUID
ReadOf(sessionId) ==
  IF isUUID(sessionId) THEN [ok |-> TRUE, history |-> <<>>] ELSE NoRead

ArrivalsOf(arr, sessionId) ==
  IF sessionId \in DOMAIN arr THEN arr[sessionId] ELSE <<>>

TotalArrivals(arr) ==
  Len(ArrivalsOf(arr, DirectSessionId))
    + Len(ArrivalsOf(arr, ConversationId(1)))

\* what a session holds: entities, dialogue state and history
SessionView(sess, sessionId) ==
  IF sessionId \in DOMAIN sess
  THEN [present |-> TRUE, entities |-> sess[sessionId].entities,
        conversationState |-> sess[sessionId].conversationState,
        history |-> sess[sessionId].history]
  ELSE [present |-> FALSE]

\* the calls that await the classifier learn that a turn of their session
\* has finished
NoteFinished(cs, sessionId, turn) ==
  [k \in 1..Len(cs) |->
     IF cs[k].sessionId = sessionId
     THEN [cs[k] EXCEPT !.during = Append(@, turn)]
     ELSE cs[k]]

\* two turns of a session processed one after the other, from the entry
\* base of the sessions Map
SerialOutcome(base, first, second, sessionId, ready, at) ==
  SessionView(
    handleMessage(
      handleMessage(base, first.userMessage, sessionId, first.db, ready,
                    first.raw, at).sessions,
      second.userMessage, sessionId, second.db, ready, second.raw,
      at).sessions,
    sessionId)

\* a turn that did not call the classifier in the concurrent run may call
\* it in a serial one: any answer is allowed then
Replays(turn, answers) ==
  IF turn.classified THEN {turn}
  ELSE {[turn EXCEPT !.raw = r] : r \in answers}

SerialOutcomes(base, a, b, sessionId, ready, at, answers) ==
  UNION {{SerialOutcome(base, x, y, sessionId, ready, at),
          SerialOutcome(base, y, x, sessionId, ready, at)} :
           x \in Replays(a, answers), y \in Replays(b, answers)}

\* the record of a turn that ends, with what two overlapping turns of the
\* session have left and what they would have left one after the other
RaceRecord(record, this, sess, sessionId, ready, at, answers) ==
  IF Len(this.during) = 1 /\ this.during[1].during = <<>>
  THEN [raced |-> TRUE, final |-> SessionView(sess, sessionId),
        serial |->
          SerialOutcomes(IF this.during[1].seq < this.seq
                         THEN this.during[1].base ELSE this.base,
                         this, this.during[1], sessionId, ready, at,
                         answers)] @@ record
  ELSE [raced |-> FALSE] @@ record

\* a call handleMessage(userMessage, sessionId) arrives and runs up to the
\* await of classifyIntent, or to its return when it does not wait
CallArrives(sessionId, userMessage, db, maxCalls) ==
  /\ TotalArrivals(arrivals) < maxCalls
  /\ arrivals' =
       (sessionId :> Append(ArrivalsOf(arrivals, sessionId), userMessage))
         @@ arrivals
  /\ \E got \in {getOrCreateSession(sessions, sessionId, db)} :
     \E continuation \in
          {checkIntentContinuation(got.session, userMessage,
                                   detectInfoProviding(userMessage), now)} :
       IF continuation.shouldContinue \/ ~ model
       THEN \E outcome \in
                 {handleMessageContinued(got, continuation, userMessage,
                                         sessionId, model, NoAnswer, now)} :
              /\ sessions' = outcome.sessions
              /\ lastTurn' =
                   [raced |-> FALSE]
                     @@ TurnRecord(sessions, userMessage, sessionId, db,
                                   NoAnswer, outcome, now)
              /\ calls' =
                   NoteFinished(calls, sessionId,
                                [userMessage |-> userMessage,
                                 raw |-> NoAnswer, classified |-> FALSE,
                                 db |-> db,
                                 seq |-> Len(arrivals'[sessionId]),
                                 base |-> Restrict(sessions, sessionId),
                                 during |-> <<>>])
       ELSE /\ sessions' = got.sessions
            /\ calls' =
                 Append(calls,
                        [sessionId |-> sessionId,
                         userMessage |-> userMessage, db |-> db,
                         session |-> got.session,
                         seq |-> Len(arrivals'[sessionId]),
                         base |-> Restrict(sessions, sessionId),
                         during |-> <<>>, startedAt |-> now,
                         answered |-> FALSE, raw |-> NoAnswer])
            /\ UNCHANGED lastTurn
  /\ UNCHANGED <<now, model, handoffVars, awaits>>

\* what the other calls learn of a call that ends with the answer raw
Ended(call, raw) ==
  [userMessage |-> call.userMessage, raw |-> raw, classified |-> TRUE,
   db |-> call.db, seq |-> call.seq, base |-> call.base,
   during |-> call.during]

\* the calls that still await the classifier when call number k has ended
WithoutCall(cs, k, raw) ==
  NoteFinished(RemoveAt(cs, k), cs[k].sessionId, Ended(cs[k], raw))

\* call number k runs from the answer raw of classifyIntent to its return.
\* A session built from the database is the object the call was given; a
\* session of the Map is the object the Map holds
CallEnds(k, raw) ==
  /\ k \in 1..Len(calls)
  /\ \E call \in {calls[k]} :
     \E got \in {[session |-> IF call.session.isFromDatabase
                              THEN call.session
                              ELSE sessions[call.sessionId],
                  sessions |-> sessions]} :
     \E outcome \in
          {handleMessageExtracted(got, FALSE, classifyIntent(raw),
                                  extractAllEntities(call.userMessage),
                                  call.userMessage, call.sessionId, TRUE,
                                  now)} :
     \E this \in {Ended(call, raw)} :
       /\ sessions' = outcome.sessions
       /\ calls' = WithoutCall(calls, k, raw)
       /\ lastTurn' =
            RaceRecord(TurnRecord(sessions, call.userMessage, call.sessionId,
                                  call.db, raw, outcome, now),
                       this, outcome.sessions, call.sessionId, TRUE, now,
                       BookingAnswers)
  /\ UNCHANGED <<now, model, handoffVars, arrivals, awaits>>

\* classifyIntent resolves for call number k, which runs to its return in
\* the same turn of the event loop
CallReturns(k, raw) ==
  /\ k \in 1..Len(calls)
  /\ ~ calls[k].answered
  /\ CallEnds(k, raw)

\* the model answers the request of call number k, or the request fails:
\* the promise that the call awaits is settled
ClassifierAnswers(k, raw) ==
  /\ k \in 1..Len(calls)
  /\ ~ calls[k].answered
  /\ calls' = [calls EXCEPT ![k].answered = TRUE, ![k].raw = raw]
  /\ UNCHANGED <<now, model, sessions, lastTurn, handoffVars, arrivals, awaits>>

\* the event loop resumes call number k, whose promise is settled
CallResumes(k) ==
  /\ k \in 1..Len(calls)
  /\ calls[k].answered
  /\ CallEnds(k, calls[k].raw)

\* calls of handleMessage that overlap, on a session of the Map and on a
\* session read from the database
NextConcurrent ==
  \/ \E id \in ConcurrentSessions, m \in ConcurrentMessages :
       CallArrives(id, m, ReadOf(id), MaxCalls)
  \/ \E k \in 1..MaxCalls, raw \in BookingAnswers : CallReturns(k, raw)

SpecConcurrent == Init /\ [][NextConcurrent]_vars

\* a dialogue in which the customer changes the subject: a booking request,
\* a question that the classifier takes for a visa inquiry, a date
MaxDialogueTurns == 3

StaleMessages == {MsgBook, MsgQuestion, MsgDate}

StaleAnswers ==
  { Answer("TICKET_BOOK", ("DESTINATION" :> <<"u6771", "u4eac">>), FALSE),
    Answer("VISA_INQUIRY", <<>>, FALSE) }

NextStale ==
  \/ \E d \in RouterDelays : Wait(d)
  \/ \E m \in StaleMessages, raw \in StaleAnswers :
       DirectTurn(DirectSessionId, m, raw, NoRead, MaxDialogueTurns)

SpecStale == Init /\ [][NextStale]_vars

\* dialogues of the flows that collect slots: what the classifier finds in a
\* request for a booking, a ticketing, a change, a quote, a flight or a
\* booking status
BookingRef == <<"B", "T", "E", "2", "5", "0", "0", "2", "0", "8">>

DialogueAnswers ==
  { Answer("TICKET_BOOK", ("DESTINATION" :> <<"u6771", "u4eac">>) @@ ("PASSENGERS" :> <<"2">>), FALSE),
    Answer("TICKET_BOOK", ("BOOKING_REF" :> BookingRef), FALSE),
    Answer("TICKET_CHANGE", ("BOOKING_REF" :> BookingRef), FALSE),
    Answer("QUOTE_REQUEST", ("DESTINATION" :> <<"u6771", "u4eac">>), FALSE),
    Answer("FLIGHT_QUERY", ("DESTINATION" :> <<"u6771", "u4eac">>), FALSE),
    Answer("BOOKING_STATUS", ("BOOKING_REF" :> BookingRef), FALSE) }

DialogueMessages == {MsgBook, MsgDate, MsgConfirm}

NextDialogue ==
  \/ \E d \in RouterDelays : Wait(d)
  \/ \E m \in DialogueMessages, raw \in DialogueAnswers :
       DirectTurn(DirectSessionId, m, raw, NoRead, MaxTurns)

SpecDialogue == Init /\ [][NextDialogue]_vars

\* dialogues in which a flow that collects slots is followed by another
\* flow, by its completion or by a one-shot question
UpdateAnswers ==
  { Answer("TICKET_BOOK", ("DESTINATION" :> <<"u6771", "u4eac">>) @@ ("PASSENGERS" :> <<"2">>), FALSE),
    Answer("QUOTE_REQUEST", ("DESTINATION" :> <<"u6771", "u4eac">>), FALSE),
    Answer("VISA_INQUIRY", <<>>, FALSE) }

UpdateMessages == DialogueMessages \cup {MsgQuestion}

NextUpdate ==
  \/ \E d \in RouterDelays : Wait(d)
  \/ \E m \in UpdateMessages, raw \in UpdateAnswers :
       DirectTurn(DirectSessionId, m, raw, NoRead, MaxTurns)

SpecUpdate == Init /\ [][NextUpdate]_vars

\* the sweep and customers of several VIP levels: each customer writes once,
\* before or after the start of the working hours
NextPromotion ==
  \/ \E d \in SweepDelays : Wait(d)
  \/ \E u \in LineUsers, m \in LineMessages, raw \in LineAnswers :
       OnlyLineEvent(u, m, raw)
  \/ \E c \in CrmCustomers, v \in QueueVipLevels : SetVip(c, v)
  \/ Sweep

SpecPromotion == Init /\ [][NextPromotion]_vars

\* two customers who write twice while they wait for an agent
NextRequeue ==
  \/ \E d \in SweepDelays : Wait(d)
  \/ \E u \in LineUsers, m \in LineMessages, raw \in LineAnswers :
       LineEvent(u, m, raw, TRUE)

SpecRequeue == Init /\ [][NextRequeue]_vars

\* a customer who writes before and after an agent accepted the conversation
NextAssigned ==
  \/ \E d \in QueueDelays : Wait(d)
  \/ \E u \in SweepUsers, m \in LineMessages, raw \in LineAnswers :
       LineEvent(u, m, raw, TRUE)
  \/ \E a \in Agents, n \in 1..MaxConversations : Accept(a, n, FALSE)

SpecAssigned == Init /\ [][NextAssigned]_vars

(***************************************************************************)
(* Handlers that read the database, await, and write what they decided on  *)
(* what they read.  Between the read and the write the event loop runs     *)
(* other handlers.                                                         *)
(***************************************************************************)
\* handlers that wait at the same time
MaxAwaits == 2

\* the handlers of one kind that wait
InFlight(op) == {k \in 1..Len(awaits) : awaits[k].op = op}

\* the row findMany gave the sweep, with the vipLevel of its customer
SweepRead(i) ==
  [regionId |-> conversations[i].regionId,
   botHandoffAt |-> conversations[i].botHandoffAt,
   vipLevel |-> vipLevel[conversations[i].customerId]]

\* processOffHoursPendingConversations up to the first await inside its
\* loop: the rows that findMany gives
SweepReads ==
  /\ InFlight("sweep") = {}
  /\ Len(awaits) < MaxAwaits
  /\ PendingRows(conversations) # {}
  /\ awaits' = Append(awaits,
                      [op |-> "sweep", rows |-> PendingRows(conversations),
                       read |-> [i \in PendingRows(conversations) |-> SweepRead(i)],
                       promoted |-> {}])
  /\ UNCHANGED <<now, routerVars, handoffVars, calls, arrivals>>

\* the record of the run that ends with the row i, promoted or not
SweepReturns(a, i, go) ==
  [done |-> TRUE,
   processed |-> Cardinality(a.promoted \cup (IF go THEN {i} ELSE {})),
   skipped |-> Cardinality(DOMAIN a.read) - Cardinality(a.promoted \cup (IF go THEN {i} ELSE {})),
   total |-> Cardinality(DOMAIN a.read),
   at |-> now, pending |-> DOMAIN a.read,
   promoted |-> a.promoted \cup (IF go THEN {i} ELSE {}),
   marks |-> markedAt]

\* one turn of the loop of the sweep number k: the row i it read is judged
\* as read and, when it is to be processed, updated by its id and given the
\* notice
SweepWritesRow(k, i, go) ==
  /\ conversations' =
       IF go
       THEN [conversations EXCEPT
               ![i].status = "WAITING",
               ![i].priority = SweepPriority(awaits[k].read[i].vipLevel),
               ![i].botHandoffAt = now]
       ELSE conversations
  /\ messages' =
       IF go THEN [messages EXCEPT ![i] = Append(@, Message("BOT", <<SweepNotice>>))]
       ELSE messages
  /\ awaits' =
       IF awaits[k].rows = {i} THEN RemoveAt(awaits, k)
       ELSE [awaits EXCEPT ![k].rows = @ \ {i},
                           ![k].promoted = @ \cup (IF go THEN {i} ELSE {})]
  /\ lastSweep' =
       IF awaits[k].rows = {i} THEN SweepReturns(awaits[k], i, go) ELSE lastSweep
  /\ UNCHANGED <<now, routerVars, vipLevel, lastEvent, lastQueue, markedAt, calls, arrivals>>

SweepWrites(k) ==
  /\ k \in InFlight("sweep")
  /\ \E i \in {Min(awaits[k].rows)} :
       SweepWritesRow(k, i, shouldProcess(awaits[k].read[i], now))

\* a LINE event of a customer none of whose conversations was closed
RaceEvent(user, userMessage, raw) ==
  /\ \A n \in 1..Len(conversations) : conversations[n].status # "CLOSED"
  /\ LineEvent(user, userMessage, raw, TRUE)

\* the sweep runs while the customer writes again, an agent accepts and a
\* super administrator closes
NextSweepRace ==
  \/ \E d \in SweepDelays : Wait(d)
  \/ \E u \in SweepUsers, m \in LineMessages, raw \in LineAnswers :
       RaceEvent(u, m, raw)
  \/ \E a \in Agents, n \in 1..MaxConversations : Accept(a, n, FALSE)
  \/ \E a \in DeskAgents, n \in 1..MaxConversations : Close(a, RoleOf(a), n)
  \/ SweepReads
  \/ \E k \in 1..MaxAwaits : SweepWrites(k)

SpecSweepRace == Init /\ [][NextSweepRace]_vars

\* POST /api/agent/accept/:conversationId up to the update: the row that
\* findUnique gives is tested, and a row that does not wait is answered
\* with InvalidStatus
AcceptReads(agent, n) ==
  /\ n \in 1..Len(conversations)
  /\ Len(awaits) < MaxAwaits
  /\ awaits' = Append(awaits,
                      [op |-> "accept", agent |-> agent, row |-> n,
                       result |-> IF conversations[n].status = "WAITING"
                                  THEN "pending" ELSE "InvalidStatus"])
  /\ UNCHANGED <<now, routerVars, handoffVars, calls, arrivals>>

\* the update of the accept number k, by the id of the row, and the welcome
\* message when the push reaches LINE; the request is answered with success
AcceptWrites(k, pushOk) ==
  /\ k \in InFlight("accept")
  /\ awaits[k].result = "pending"
  /\ conversations' =
       [conversations EXCEPT ![awaits[k].row].status = "ASSIGNED",
                             ![awaits[k].row].assignedAgentId = awaits[k].agent]
  /\ messages' =
       IF pushOk
       THEN [messages EXCEPT
               ![awaits[k].row] = Append(@, Message("AGENT", <<WelcomeMessage>>))]
       ELSE messages
  /\ awaits' = [awaits EXCEPT ![k].result = "OK"]
  /\ UNCHANGED <<now, routerVars, vipLevel, lastEvent, lastSweep, lastQueue, markedAt, calls, arrivals>>

\* two agents and the conversations that wait
NextAcceptRace ==
  \/ \E d \in SweepDelays : Wait(d)
  \/ \E u \in LineUsers, m \in LineMessages, raw \in LineAnswers :
       OnlyLineEvent(u, m, raw)
  \/ \E a \in DeskAgents, n \in 1..MaxConversations : AcceptReads(a, n)
  \/ \E k \in 1..MaxAwaits, pushOk \in BOOLEAN : AcceptWrites(k, pushOk)

SpecAcceptRace == Init /\ [][NextAcceptRace]_vars

\* getOrCreateConversation up to the answer of findFirst: the open
\* conversation of the customer, 0 when there is none
ConversationReads(user, userMessage) ==
  /\ Len(awaits) < MaxAwaits
  /\ awaits' = Append(awaits,
                      [op |-> "event", user |-> user, userMessage |-> userMessage,
                       row |-> IF OpenConversations(conversations, user) = {} THEN 0
                               ELSE ConversationRow(conversations, user)])
  /\ UNCHANGED <<now, routerVars, handoffVars, calls, arrivals>>

\* the LINE event number k goes on: the customer for whom findFirst gave no
\* row gets a new conversation, and the event is handled in the row
ConversationWrites(k, raw) ==
  /\ k \in InFlight("event")
  /\ \E n \in {IF awaits[k].row = 0 THEN Len(conversations) + 1 ELSE awaits[k].row} :
       LineEventOn(awaits[k].user, awaits[k].userMessage, raw, TRUE, n, awaits[k].row = 0)
  /\ awaits' = RemoveAt(awaits, k)
  /\ UNCHANGED <<calls, arrivals>>

\* LINE events of one customer that are handled at the same time
NextCreateRace ==
  \/ \E d \in SweepDelays : Wait(d)
  \/ \E u \in SweepUsers, m \in LineMessages : ConversationReads(u, m)
  \/ \E k \in 1..MaxAwaits, raw \in LineAnswers : ConversationWrites(k, raw)

SpecCreateRace == Init /\ [][NextCreateRace]_vars

\* calls of handleMessage and a classifier that answers, fails or stays
\* silent.  The event loop runs every continuation whose promise is
\* settled; nothing makes the model answer
NextClassifier ==
  \/ \E m \in {MsgBook, MsgDate} :
       CallArrives(DirectSessionId, m, NoRead, MaxCalls)
  \/ \E k \in 1..MaxCalls, raw \in {Answer("TICKET_BOOK", <<>>, FALSE), NoAnswer} :
       ClassifierAnswers(k, raw)
  \/ \E k \in 1..MaxCalls : CallResumes(k)

\* the step CallResumes(k) seen from the calls that wait: the settled call
\* number k is no longer among them
CallLeaves(k) ==
  /\ k \in 1..Len(calls)
  /\ calls[k].answered
  /\ calls' = WithoutCall(calls, k, calls[k].raw)

\* the event loop runs the continuation of every settled promise: a call
\* that can resume does resume
SpecClassifier ==
  /\ Init
  /\ [][NextClassifier]_vars
  /\ \A k \in 1..MaxCalls : WF_calls(CallLeaves(k))

(***************************************************************************)
(* Properties of the dialogue router.                                      *)
(***************************************************************************)
\* C1: in a booking dialogue whose turns each come within 5 minutes of the
\* last question, a turn that gives the date, the passenger count or the
\* confirmation continues the intent TICKET_BOOK; the turn that fills the
\* last of destination, date and passengers asks for CONFIRMATION; and the
\* confirming turn returns requiresHuman = true and leaves the session
\* without dialogue state.
C1_BookingFlowConverges ==
  lastTurn.done =>
    LET booking == /\ lastTurn.before.open
                   /\ lastTurn.before.currentIntent = "TICKET_BOOK"
                   /\ lastTurn.at - lastTurn.before.lastAskedAt <= 5
        filled == /\ Has(lastTurn.result.entities, "destination", "DESTINATION")
                  /\ Has(lastTurn.result.entities, "date", "DATE")
                  /\ Has(lastTurn.result.entities, "passengers", "PASSENGERS")
    IN /\ (booking /\ lastTurn.userMessage
                        \in {MsgDate, MsgPassengers, MsgConfirm})
            => /\ lastTurn.result.isContinuation
               /\ lastTurn.result.intent = "TICKET_BOOK"
       /\ (booking /\ lastTurn.userMessage \in {MsgDate, MsgPassengers}
              /\ filled)
            => /\ lastTurn.result.awaitingInfo = <<"CONFIRMATION">>
               /\ ~ lastTurn.result.requiresHuman
               /\ lastTurn.after.open
               /\ lastTurn.after.awaitingInfo = <<"CONFIRMATION">>
       /\ (booking /\ lastTurn.before.awaitingInfo = <<"CONFIRMATION">>
              /\ lastTurn.userMessage = MsgConfirm)
            => /\ lastTurn.result.requiresHuman
               /\ lastTurn.result.success
               /\ ~ lastTurn.after.open

\* the four turns of testTicketBookingFlow have run, in that order, and the
\* last one confirmed the booking
C1_Witness ==
  /\ lastTurn.done
  /\ lastTurn.userMessage = MsgConfirm
  /\ lastTurn.before.open
  /\ lastTurn.before.awaitingInfo = <<"CONFIRMATION">>
  /\ lastTurn.result.requiresHuman
  /\ ~ lastTurn.after.open
  /\ DirectSessionId \in DOMAIN sessions
  /\ LET history == sessions[DirectSessionId].history
     IN /\ Len(history) = 8
        /\ history[1].content = MsgBook
        /\ history[3].content = MsgDate
        /\ history[5].content = MsgPassengers
        /\ history[7].content = MsgConfirm
        /\ history[8].content = Reply("BOOK_CONFIRMED")

\* C2: when the session has an open dialogue state that awaits DATE and was
\* asked at most 5 minutes ago, a date-shaped message is a continuation:
\* isContinuation is true, the intent is the current intent of the dialogue
\* state, and the classifier is not called.
C2_DateContinues ==
  (/\ lastTurn.done
   /\ lastTurn.before.open
   /\ "DATE" \in Range(lastTurn.before.awaitingInfo)
   /\ lastTurn.at - lastTurn.before.lastAskedAt <= 5
   /\ lastTurn.userMessage \in {MsgDate, MsgLongDate})
    => /\ lastTurn.result.isContinuation
       /\ lastTurn.result.intent = lastTurn.before.currentIntent
       /\ ~ lastTurn.classified

\* a long sentence that begins with a date was taken as the date awaited,
\* five minutes after the question
C2_Witness ==
  /\ lastTurn.done
  /\ lastTurn.before.open
  /\ "DATE" \in Range(lastTurn.before.awaitingInfo)
  /\ lastTurn.at - lastTurn.before.lastAskedAt = 5
  /\ lastTurn.userMessage = MsgLongDate
  /\ lastTurn.result.isContinuation
  /\ ~ lastTurn.classified

\* C3: more than 5 minutes after the last question no message is a
\* continuation: isContinuation is false, the classifier is called and its
\* answer is the intent of the turn, and the turn fails only if it would
\* fail without any dialogue state (classifier not initialised, extractor
\* raising); exactly 5 minutes after the question a short message still
\* continues the dialogue.
C3_ExpiredDialogue ==
  lastTurn.done =>
    /\ (lastTurn.before.open
          /\ lastTurn.at - lastTurn.before.lastAskedAt > 5)
         => /\ ~ lastTurn.result.isContinuation
            /\ lastTurn.classified
            /\ lastTurn.result.success
                 <=> (model /\ ~ extractAllEntities(lastTurn.userMessage).throws)
            /\ lastTurn.result.success
                 => lastTurn.result.intent
                      = IF lastTurn.raw.parsed THEN lastTurn.raw.intent
                        ELSE "UNKNOWN"
    /\ (lastTurn.before.open
          /\ lastTurn.at - lastTurn.before.lastAskedAt = 5
          /\ lastTurn.userMessage \in {MsgBook, MsgDate})
         => /\ lastTurn.result.isContinuation
            /\ ~ lastTurn.classified

\* a message that would have continued the dialogue came six minutes after
\* the question and was classified afresh
C3_Witness ==
  /\ lastTurn.done
  /\ lastTurn.before.open
  /\ lastTurn.at - lastTurn.before.lastAskedAt = 6
  /\ lastTurn.userMessage = MsgDate
  /\ ~ lastTurn.result.isContinuation
  /\ lastTurn.classified
  /\ lastTurn.result.success

\* C10 as stated: an exception at any step of the turn, the session lookup
\* included, gives the apology reply with requiresHuman = true.
C10_AnyExceptionApologises ==
  (/\ lastTurn.done
   /\ \/ lastTurn.readFailed
      \/ lastTurn.classified /\ ~ model
      \/ extractAllEntities(lastTurn.userMessage).throws)
    => /\ lastTurn.result.reply = Reply("SYSTEM_ERROR_APOLOGY")
       /\ lastTurn.result.requiresHuman

\* C10, amended: handleMessage always returns a result.  When the
\* classifier or the extractor raises, the result is the failure result
\* with the apology reply and requiresHuman = true; a failed history read
\* of the session lookup raises nothing in handleMessage: the turn goes on
\* with the session held in memory and succeeds unless a later step raises.
C10_ExceptionsInsideTheTurn ==
  lastTurn.done =>
    LET raised == \/ lastTurn.classified /\ ~ model
                  \/ extractAllEntities(lastTurn.userMessage).throws
    IN /\ raised => /\ ~ lastTurn.result.success
                    /\ lastTurn.result.reply = Reply("SYSTEM_ERROR_APOLOGY")
                    /\ lastTurn.result.requiresHuman
       /\ ~ raised => /\ lastTurn.result.success
                      /\ lastTurn.result.reply # Reply("SYSTEM_ERROR_APOLOGY")

\* the history read failed and the extractor raised in the same turn
C10_Witness ==
  /\ lastTurn.done
  /\ lastTurn.readFailed
  /\ extractAllEntities(lastTurn.userMessage).throws
  /\ ~ lastTurn.result.success
  /\ lastTurn.result.requiresHuman

(***************************************************************************)
(* Properties of the hand-off to agents, the queue and the sweep.          *)
(***************************************************************************)
\* C4: a turn that asks for a human outside the working hours of the region
\* (not a work day, or before start, or after end) never moves the
\* conversation to WAITING: the status is left as it was, so a BOT
\* conversation stays BOT, only the OFF_HOURS_PENDING marker is written, and
\* the customer is sent the off-hours notice and not the AI reply.
C4_OffHoursNeverQueues ==
  (/\ lastEvent.done
   /\ ~ lastEvent.handledByAgent
   /\ lastEvent.requiresHuman
   /\ \/ DayOfWeek(lastEvent.at) \notin Range(RegionWorkingHours.workDays)
      \/ lastEvent.at % MinutesPerDay < MinutesOf(RegionWorkingHours.start)
      \/ lastEvent.at % MinutesPerDay > MinutesOf(RegionWorkingHours.end))
    => /\ lastEvent.after.status = lastEvent.before.status
       /\ lastEvent.before.status = "BOT" => lastEvent.after.status = "BOT"
       /\ lastEvent.after =
            [lastEvent.before EXCEPT !.botHandoffReason = OFF_HOURS_PENDING]
       /\ lastEvent.replyMessages = <<OffHoursNotice>>

\* a request for an agent on a Saturday left the conversation with the bot,
\* marked as pending
C4_Witness ==
  /\ lastEvent.done
  /\ ~ lastEvent.handledByAgent
  /\ lastEvent.requiresHuman
  /\ DayOfWeek(lastEvent.at) = 6
  /\ lastEvent.before.status = "BOT"
  /\ lastEvent.before.botHandoffReason = ""
  /\ lastEvent.after.status = "BOT"
  /\ lastEvent.after.botHandoffReason = OFF_HOURS_PENDING
  /\ lastEvent.replyMessages = <<OffHoursNotice>>

\* C5: a turn that asks for a human on a work day between start and end,
\* both included, moves the conversation to WAITING with priority 5 for a
\* VIP level of 4 or more, 4 for a level of 2 or 3 and 3 otherwise, and
\* records the time and the reason of the hand-off; the sweep maps the VIP
\* levels 0..5 to the same priorities.
C5_HandoffWithinHours ==
  /\ (/\ lastEvent.done
      /\ ~ lastEvent.handledByAgent
      /\ lastEvent.requiresHuman
      /\ DayOfWeek(lastEvent.at) \in Range(RegionWorkingHours.workDays)
      /\ lastEvent.at % MinutesPerDay >= MinutesOf(RegionWorkingHours.start)
      /\ lastEvent.at % MinutesPerDay <= MinutesOf(RegionWorkingHours.end))
       => /\ lastEvent.after.status = "WAITING"
          /\ lastEvent.after.priority =
               IF lastEvent.vipLevel >= 4 THEN 5
               ELSE IF lastEvent.vipLevel >= 2 THEN 4 ELSE 3
          /\ lastEvent.after.botHandoffAt = lastEvent.at
          /\ lastEvent.after.botHandoffReason =
               IF lastTurn.result.intent # "undefined"
               THEN lastTurn.result.intent ELSE "USER_REQUEST"
          /\ lastEvent.replyMessages = <<lastTurn.result.reply, HandoffNotice>>
  /\ \A v \in VipLevels :
       SweepPriority(v) = IF v >= 4 THEN 5 ELSE IF v >= 2 THEN 4 ELSE 3

\* a customer of VIP level 4 asked for an agent in the last minute of the
\* working hours and was queued as urgent
C5_Witness ==
  /\ lastEvent.done
  /\ ~ lastEvent.handledByAgent
  /\ lastEvent.requiresHuman
  /\ lastEvent.at % MinutesPerDay = MinutesOf(RegionWorkingHours.end)
  /\ lastEvent.vipLevel = 4
  /\ lastEvent.after.status = "WAITING"
  /\ lastEvent.after.priority = 5
  /\ lastEvent.after.botHandoffAt = lastEvent.at

\* C6 as stated: the queue lists the WAITING conversations by priority,
\* highest first, and among equal priorities by hand-off time, oldest first.
C6_QueueByHandoffTime ==
  lastQueue.done =>
    /\ \A i \in 1..Len(lastQueue.queue) :
         lastQueue.queue[i].status = "WAITING"
    /\ \A i, j \in 1..Len(lastQueue.queue) :
         i < j =>
           \/ lastQueue.queue[i].priority > lastQueue.queue[j].priority
           \/ /\ lastQueue.queue[i].priority = lastQueue.queue[j].priority
              /\ lastQueue.queue[i].botHandoffAt
                   <= lastQueue.queue[j].botHandoffAt

\* C7 as stated: the sweep promotes a pending conversation only on a work
\* day in the 5 minutes that follow the start of the working hours, or more
\* than 24 hours after it was marked; every other pending conversation is
\* left with the bot and counted as skipped.
C7_SweepPromotesOnlyWhenDue ==
  (lastSweep.done /\ lastSweep.processed > 0) =>
    \A i \in lastSweep.promoted :
      \/ /\ DayOfWeek(lastSweep.at) \in Range(RegionWorkingHours.workDays)
         /\ lastSweep.at % MinutesPerDay >= MinutesOf(RegionWorkingHours.start)
         /\ lastSweep.at % MinutesPerDay
              <= MinutesOf(RegionWorkingHours.start) + 5
      \/ lastSweep.at - lastSweep.marks[i] > 24 * MinutesPerHour

\* C8: a sweep promotes every pending conversation that was marked more than
\* 24 hours before it, whatever the day of the week and the time of day.
C8_OldPendingPromoted ==
  (lastSweep.done /\ "pending" \in DOMAIN lastSweep) =>
    \A i \in lastSweep.pending :
      lastSweep.at - lastSweep.marks[i] > 24 * MinutesPerHour
        => /\ i \in lastSweep.promoted
           /\ conversations[i].status # "BOT"

\* a sweep on a Saturday, outside the working hours, promoted a conversation
\* marked more than 24 hours earlier
C8_Witness ==
  /\ lastSweep.done
  /\ "pending" \in DOMAIN lastSweep
  /\ DayOfWeek(lastSweep.at) = 6
  /\ \E i \in lastSweep.promoted :
       /\ lastSweep.at - lastSweep.marks[i] > 24 * MinutesPerHour
       /\ conversations[i].status = "WAITING"
       /\ conversations[i].botHandoffAt = lastSweep.at

\* C9: a run of the sweep leaves nothing that a second run at the same
\* moment would promote, changes no conversation that is already WAITING
\* and adds no message to it, so that no conversation ever carries more than
\* one notice of the sweep.
C9_SweepIdempotent ==
  /\ [](\A i \in 1..Len(messages) :
          Cardinality({k \in 1..Len(messages[i]) :
                         messages[i][k] = Message("BOT", <<SweepNotice>>)})
            <= 1)
  /\ [][Sweep =>
         /\ {i \in PendingRows(conversations') :
               shouldProcess(conversations'[i], now')} = {}
         /\ \A i \in 1..Len(conversations) :
              conversations[i].status = "WAITING"
                => /\ conversations'[i] = conversations[i]
                   /\ messages'[i] = messages[i]]_vars

\* a second run found nothing to promote after a first run had promoted a
\* conversation, which carries one notice
C9_Witness ==
  /\ lastSweep.done
  /\ lastSweep.processed = 0
  /\ \E i \in 1..Len(conversations) :
       /\ conversations[i].status = "WAITING"
       /\ Cardinality({k \in 1..Len(messages[i]) :
                         messages[i][k] = Message("BOT", <<SweepNotice>>)}) = 1

C12_FailedClassificationEscalates ==
  (/\ lastTurn.done
   /\ lastTurn.classified
   /\ model
   /\ ~ lastTurn.raw.parsed
   /\ ~ extractAllEntities(lastTurn.userMessage).throws
   /\ Len(searchFAQ(lastTurn.userMessage, 3)) = 0)
    => lastTurn.result.requiresHuman

(***************************************************************************)
(* Properties of the dialogue state and of the handlers.                   *)
(***************************************************************************)

\* C16 as stated: after every successful turn the session has a dialogue
\* state exactly when the handler of that turn returned a non-empty
\* awaitingInfo.  A handler that returns neither awaitingInfo nor
\* conversationComplete leaves an open state as it was: the statement is
\* violated.
C16_StateIffAwaiting ==
  (lastTurn.done /\ lastTurn.result.success)
    => (lastTurn.after.open <=> Len(lastTurn.response.awaitingInfo) > 0)

\* the last turn ran under another intent than the one of the open dialogue
\* state, and its handler returned neither awaitingInfo nor
\* conversationComplete
ChangedSubject(turn) ==
  /\ turn.done
  /\ turn.result.success
  /\ turn.before.open
  /\ turn.result.intent # turn.before.currentIntent
  /\ Len(turn.response.awaitingInfo) = 0
  /\ ~ turn.response.conversationComplete

\* C17 as stated: once a turn has changed the subject in that way, the next
\* turn is not taken as a continuation of the old intent.  The old state is
\* left in the session and continues the next short message: the statement
\* is violated.
C17_StaleStateNotContinued ==
  [][(ChangedSubject(lastTurn) /\ lastTurn' # lastTurn)
       => ~ (/\ lastTurn'.result.success
             /\ lastTurn'.result.isContinuation
             /\ lastTurn'.result.intent = lastTurn.before.currentIntent)]_vars

\* the slots a flow must have before it can be resolved, as its handler
\* tests them
RequiredSlots(intent) ==
  IF intent = "TICKET_BOOK"
  THEN {<<"destination", "DESTINATION">>, <<"date", "DATE">>,
        <<"passengers", "PASSENGERS">>}
  ELSE IF intent \in {"QUOTE_REQUEST", "FLIGHT_QUERY"}
  THEN {<<"destination", "DESTINATION">>, <<"date", "DATE">>}
  ELSE {}

SlotsFilled(intent, entities) ==
  \A slot \in RequiredSlots(intent) :
    Has(entities, slot[1], slot[2])

\* the message of the turn is an explicit confirmation of an open dialogue
Confirms(turn) ==
  /\ turn.result.isContinuation
  /\ "CONFIRMATION" \in Range(detectInfoProviding(turn.userMessage).detectedTypes)

\* C18 as stated: a handler that collects slots and finds them all filled
\* on a turn that is not an explicit confirmation does not resolve the
\* flow: it returns awaitingInfo = [CONFIRMATION].  The handlers of the
\* quote and of the flight query resolve at once: the statement is
\* violated.
C18_ConfirmationBeforeResolving ==
  (/\ lastTurn.done
   /\ lastTurn.result.success
   /\ RequiredSlots(lastTurn.result.intent) # {}
   /\ SlotsFilled(lastTurn.result.intent, lastTurn.result.entities)
   /\ ~ Confirms(lastTurn))
    => /\ ~ lastTurn.response.conversationComplete
       /\ lastTurn.response.awaitingInfo = <<"CONFIRMATION">>

\* the message is a confirmation as handleTicketBook tests it
TicketConfirmation(message) ==
  \/ includes(message, <<"u78ba", "u8a8d">>)
  \/ includes(message, <<"u78ba", "u5b9a">>)
  \/ toUpperCase(trim(message)) \in TicketConfirmWords

\* C19: a booking turn without booking reference on which destination,
\* date and passengers are known, and which is not a confirmation inside a
\* continuation, asks for the confirmation: the handler returns
\* awaitingInfo = [CONFIRMATION], requiresHuman = false and does not
\* complete the flow.  The confirmation that follows as a continuation
\* completes the flow with requiresHuman = true, and the state is cleared.
C19_BookingAsksThenConfirms ==
  (lastTurn.done /\ lastTurn.result.success /\ lastTurn.result.intent = "TICKET_BOOK")
    => /\ (/\ ~ Has(lastTurn.result.entities, "booking_ref", "BOOKING_REF")
           /\ SlotsFilled("TICKET_BOOK", lastTurn.result.entities)
           /\ ~ (/\ lastTurn.result.isContinuation
                 /\ TicketConfirmation(lastTurn.userMessage)))
            => /\ lastTurn.response.awaitingInfo = <<"CONFIRMATION">>
               /\ ~ lastTurn.response.requiresHuman
               /\ ~ lastTurn.raw.requires_human => ~ lastTurn.result.requiresHuman
               /\ ~ lastTurn.response.conversationComplete
               /\ lastTurn.after.open
               /\ lastTurn.after.awaitingInfo = <<"CONFIRMATION">>
       /\ (/\ lastTurn.result.isContinuation
           /\ lastTurn.before.awaitingInfo = <<"CONFIRMATION">>
           /\ ~ Has(lastTurn.result.entities, "booking_ref", "BOOKING_REF")
           /\ TicketConfirmation(lastTurn.userMessage))
            => /\ lastTurn.response.conversationComplete
               /\ lastTurn.response.requiresHuman
               /\ lastTurn.result.requiresHuman
               /\ ~ lastTurn.after.open

\* the dialogue of testTicketBookingCompleteInfo: everything in one message,
\* then the confirmation
C19_Witness ==
  /\ lastTurn.done
  /\ lastTurn.result.success
  /\ lastTurn.result.intent = "TICKET_BOOK"
  /\ lastTurn.result.isContinuation
  /\ lastTurn.userMessage = MsgConfirm
  /\ lastTurn.before.open
  /\ lastTurn.before.awaitingInfo = <<"CONFIRMATION">>
  /\ Len(sessions[lastTurn.sessionId].history) = 4
  /\ lastTurn.response.conversationComplete

\* the flows that a handler can complete
CompletingIntents ==
  {"TICKET_BOOK", "TICKET_CHANGE", "QUOTE_REQUEST", "FLIGHT_QUERY",
   "BOOKING_STATUS"}

\* C20: a turn whose handler signals conversationComplete asks for a human
\* operator, in what the handler returns and in the result of the turn; the
\* flows that complete are the booking, the ticket change, the quote, the
\* flight query and the booking status.
C20_CompleteRequiresHuman ==
  (lastTurn.done /\ lastTurn.result.success /\ lastTurn.response.conversationComplete)
    => /\ lastTurn.response.requiresHuman
       /\ lastTurn.result.requiresHuman
       /\ lastTurn.result.intent \in CompletingIntents

\* a quote completes on the turn that brings the date
C20_Witness ==
  /\ lastTurn.done
  /\ lastTurn.result.success
  /\ lastTurn.result.intent = "QUOTE_REQUEST"
  /\ lastTurn.response.conversationComplete
  /\ lastTurn.result.requiresHuman

(***************************************************************************)
(* Properties of concurrent calls.                                         *)
(***************************************************************************)

\* C13 as stated: when two turns of one conversation overlap, the entities,
\* the dialogue state and the history they leave are those of processing
\* the two messages one after the other in some order.  The code does not
\* serialise the calls: the statement is violated.
C13_ConcurrentTurnsSerialise ==
  (lastTurn.done /\ "raced" \in DOMAIN lastTurn /\ lastTurn.raced)
    => lastTurn.final \in lastTurn.serial

\* the messages of the user in a rolling history, oldest first
UserTurns(history) ==
  LET users == SelectSeq(history, LAMBDA h : h.role = "user")
  IN  [k \in 1..Len(users) |-> users[k].content]

\* C14 as stated: once the turns of a conversation have ended, the order of
\* its turns in the rolling history is the order in which its messages
\* arrived, also when a later message ended its turn first.  The history
\* is appended at the end of each turn: the statement is violated.
C14_HistoryInArrivalOrder ==
  model =>
    \A id \in DOMAIN sessions :
      (/\ ~ sessions[id].isFromDatabase
       /\ \A k \in 1..Len(calls) : calls[k].sessionId # id)
        => UserTurns(sessions[id].history) = ArrivalsOf(arrivals, id)

\* call number n of session sessionId awaits classifyIntent
Awaiting(sessionId, n) ==
  \E k \in 1..Len(calls) :
    calls[k].sessionId = sessionId /\ calls[k].seq = n

\* C15 as stated: every call of handleMessage returns in the end, whether
\* or not the classifier answers.  Nothing bounds the wait for the
\* classifier: the statement is violated.
C15_EveryCallReturns ==
  \A n \in 1..MaxCalls :
    Awaiting(DirectSessionId, n) ~> ~ Awaiting(DirectSessionId, n)

(***************************************************************************)
(* Properties of the conversation rows.                                    *)
(***************************************************************************)

\* the steps of the status of a conversation
StatusSteps ==
  {<<"BOT", "WAITING">>, <<"WAITING", "ASSIGNED">>, <<"ASSIGNED", "CLOSED">>}

(***************************************************************************)
(* Searches of the knowledge base: searchFAQ applied to queries that match *)
(* one entry, several entries with different scores, two entries with the  *)
(* same score, and no entry, with every limit up to MaxFaqResults.         *)
(***************************************************************************)
MaxFaqResults == 4

FaqQueries ==
  { <<"u8cbb", "u7528">>, <<"u6539", "u7968", "u8cbb", "u7528">>, <<"u9000", "u7968">>,
    <<"u7c3d", "u8b49">>, <<"u6cf0", "u570b", "u7c3d", "u8b49", "u8cbb", "u7528">>,
    <<"u4f60", "u597d">>, <<"u6a5f", "u7968">>, MsgQuestion }

\* two calls of searchFAQ(query, maxResults) in a row
AskFaq(query, maxResults) ==
  /\ lastTurn' = [done |-> TRUE, userMessage |-> query, maxResults |-> maxResults,
                  faqs |-> searchFAQ(query, maxResults),
                  again |-> searchFAQ(query, maxResults), at |-> now]
  /\ UNCHANGED <<now, model, sessions, handoffVars, callVars>>

NextFaq ==
  \/ \E query \in FaqQueries, maxResults \in 0..MaxFaqResults : AskFaq(query, maxResults)
  \/ \E d \in RouterDelays : Wait(d)

SpecFaq == Init /\ [][NextFaq]_vars

\* C21 as stated: the status of a conversation changes only from BOT to
\* WAITING, from WAITING to ASSIGNED and from ASSIGNED to CLOSED.  A LINE
\* event that waited for the classifier writes WAITING over the status an
\* agent has set meanwhile, and a super administrator closes a conversation
\* in any status: the statement is violated.
C21_StatusMovesForward ==
  [][\A n \in 1..Len(conversations) :
       \/ conversations'[n].status = conversations[n].status
       \/ <<conversations[n].status, conversations'[n].status>> \in StatusSteps]_vars

\* the waiting conversations of the region of row n that are served before
\* it: a higher priority, or the same priority and an earlier handoff
Ahead(n) ==
  {i \in 1..Len(conversations) :
     /\ conversations[i].status = "WAITING"
     /\ conversations[i].regionId = conversations[n].regionId
     /\ \/ conversations[i].priority > conversations[n].priority
        \/ /\ conversations[i].priority = conversations[n].priority
           /\ conversations[i].botHandoffAt < conversations[n].botHandoffAt}

\* C22: the queue position of a waiting conversation is one more than the
\* number of waiting conversations of its region with a higher priority, or
\* with the same priority and an earlier handoff; it is 0 for a
\* conversation that does not exist or does not wait.
C22_QueuePosition ==
  (lastQueue.done /\ "position" \in DOMAIN lastQueue) =>
    IF lastQueue.row \in 1..Len(conversations)
         /\ conversations[lastQueue.row].status = "WAITING"
    THEN lastQueue.position = 1 + Cardinality(Ahead(lastQueue.row))
    ELSE lastQueue.position = 0

\* the position 2 of a conversation while a conversation of a higher
\* priority waits in another region
C22_Witness ==
  /\ lastQueue.done /\ "position" \in DOMAIN lastQueue
  /\ lastQueue.position = 2
  /\ \E i \in 1..Len(conversations) :
       /\ conversations[i].status = "WAITING"
       /\ conversations[i].regionId # conversations[lastQueue.row].regionId
       /\ conversations[i].priority > conversations[lastQueue.row].priority

(***************************************************************************)
(* Properties of the continuation of an intent.                            *)
(***************************************************************************)

\* the turn found a dialogue state with a current intent, asked no more
\* than five minutes before, that awaits something
FoundOpenState(turn) ==
  /\ turn.before.open
  /\ turn.before.currentIntent # ""
  /\ (turn.at - turn.before.lastAskedAt) * MsPerMinute <= ContinuationWindowMs
  /\ Len(turn.before.awaitingInfo) > 0

\* the turn was handled as a continuation of the intent of the state
Continued(turn) ==
  /\ turn.result.isContinuation
  /\ ~ turn.classified
  /\ turn.result.intent = turn.before.currentIntent

\* C23 as stated: with an open, unexpired dialogue state that awaits
\* something, every short message that is no question and every listed
\* confirmation phrase is handled as a continuation of the current intent.
\* A short message that names the tax id without eight digits makes the
\* entity extraction raise, and the turn ends in the apology: the statement
\* is violated.
C23_ShortMessagesContinue ==
  (/\ lastTurn.done
   /\ FoundOpenState(lastTurn)
   /\ \/ IsShortMessage(trim(lastTurn.userMessage))
      \/ lastTurn.userMessage \in ConfirmationPhrases)
    => Continued(lastTurn)

\* the turn's message shows one of the given slot types or is short
ShowsOrShort(turn, types) ==
  \/ \E type \in Range(detectInfoProviding(turn.userMessage).detectedTypes) :
       type \in types
  \/ detectInfoProviding(turn.userMessage).isShort

\* C24 as stated: a turn is continued only if it found such a state and
\* either detected a slot type the state awaits or the message is short; a
\* message that is not short and shows no awaited slot type goes to the
\* classifier.  A long message that begins with the word of confirmation is
\* continued whatever the state awaits: the statement is violated.
C24_ContinuationOnlyWhenAwaited ==
  lastTurn.done =>
    /\ ~ lastTurn.classified
         => /\ FoundOpenState(lastTurn)
            /\ ShowsOrShort(lastTurn, Range(lastTurn.before.awaitingInfo))
    /\ (/\ lastTurn.before.open
        /\ ~ ShowsOrShort(lastTurn, Range(lastTurn.before.awaitingInfo)))
         => lastTurn.classified

\* C24 amended: a turn is continued only if it found such a state and
\* detected a slot type the state awaits, or detected a confirmation, or the
\* message is short; every other message goes to the classifier.
C24_ContinuationAwaitedOrConfirmed ==
  lastTurn.done =>
    /\ ~ lastTurn.classified
         => /\ FoundOpenState(lastTurn)
            /\ ShowsOrShort(lastTurn,
                            Range(lastTurn.before.awaitingInfo)
                              \cup {"CONFIRMATION"})
    /\ (/\ lastTurn.before.open
        /\ ~ ShowsOrShort(lastTurn,
                          Range(lastTurn.before.awaitingInfo)
                            \cup {"CONFIRMATION"}))
         => lastTurn.classified

\* a long sentence that begins with the word of confirmation, continued
\* while no confirmation is awaited
C24_Witness ==
  /\ lastTurn.done
  /\ FoundOpenState(lastTurn)
  /\ lastTurn.userMessage = MsgLongConfirm
  /\ "CONFIRMATION" \notin Range(lastTurn.before.awaitingInfo)
  /\ Continued(lastTurn)

(***************************************************************************)
(* Properties of the entities of a session.                                *)
(***************************************************************************)

\* the union of records in which a key has the value of the last record
\* that holds it
RightBiased(records) ==
  [k \in UNION {DOMAIN records[i] : i \in 1..Len(records)} |->
     records[CHOOSE i \in 1..Len(records) :
               /\ k \in DOMAIN records[i]
               /\ \A j \in (i + 1)..Len(records) : k \notin DOMAIN records[j]][k]]

\* what a turn that succeeded merges, in order: the information collected
\* by the dialogue state, the entities of the session, the rule-based
\* extraction and the entities of the classifier
MergeSources(session, turn) ==
  << IF session.conversationState.open
     THEN session.conversationState.collectedInfo ELSE <<>>,
     session.entities,
     flattenEntities(extractAllEntities(turn.userMessage)),
     IF turn.classified THEN classifyIntent(turn.raw).entities ELSE <<>> >>

\* C25: the entities a turn works with are the right-biased union of the
\* collected information, the entities of the session, the rule-based
\* extraction and the entities of the classifier, in that order, and they
\* become the entities of the session.
C25_EntitiesMergeRightBiased ==
  [][(lastTurn' # lastTurn /\ lastTurn'.result.success)
       => \E session \in {getOrCreateSession(sessions, lastTurn'.sessionId,
                                            NoRead).session} :
          \E merged \in {RightBiased(MergeSources(session, lastTurn'))} :
            /\ lastTurn'.result.entities = merged
            /\ sessions'[lastTurn'.sessionId].entities = merged]_vars

\* a turn in which the date of the classifier replaced the date written in
\* the message, in a session that already held a destination
C25_Witness ==
  /\ lastTurn.done
  /\ lastTurn.result.success
  /\ lastTurn.userMessage = MsgDate
  /\ "date" \in DOMAIN lastTurn.result.entities
  /\ lastTurn.result.entities["date"] = MergeDate
  /\ "DESTINATION" \in DOMAIN lastTurn.result.entities
  /\ lastTurn.before.open

(***************************************************************************)
(* Properties of the history of a session held in memory.                  *)
(***************************************************************************)

\* the history of the session of the test interface, empty before its
\* first turn
HistoryOf(sess) ==
  IF DirectSessionId \in DOMAIN sess THEN sess[DirectSessionId].history
  ELSE <<>>

\* the two entries a turn pushes, after the history it found
Pushed(history, turn) ==
  history \o <<[role |-> "user", content |-> turn.userMessage],
               [role |-> "assistant", content |-> turn.result.reply]>>

\* later is the end of earlier, all of it or its last limit entries
EndOf(later, earlier, limit) ==
  /\ Len(later) = IF Len(earlier) > limit THEN limit ELSE Len(earlier)
  /\ \A i \in 1..Len(later) :
       later[i] = earlier[Len(earlier) - Len(later) + i]

\* C26: after every turn of a session held in memory that succeeded, the
\* history has at most 20 entries, its last two entries are the user
\* message and the reply of that turn, and only the oldest entries were
\* dropped.
C26_HistoryKeepsLastTwenty ==
  [][(lastTurn' # lastTurn /\ lastTurn'.result.success)
       => /\ Len(HistoryOf(sessions')) <= 20
          /\ Len(HistoryOf(sessions')) >= 2
          /\ EndOf(HistoryOf(sessions'),
                   Pushed(HistoryOf(sessions), lastTurn'), 20)]_vars

\* a full history that begins with a question and ends with the turn of a
\* short message
C26_Witness ==
  /\ lastTurn.done
  /\ lastTurn.result.success
  /\ Len(HistoryOf(sessions)) = 20
  /\ HistoryOf(sessions)[19] = [role |-> "user", content |-> MsgThanks]
  /\ HistoryOf(sessions)[20].role = "assistant"
  /\ HistoryOf(sessions)[1].content = MsgQuestion

(***************************************************************************)
(* Properties of the sweep.                                                *)
(***************************************************************************)

\* C27: when the promotion of a conversation fails during a sweep, the
\* sweep still promotes every other pending conversation that is due and
\* returns its counts.
C27_SweepSurvivesFailure ==
  (lastSweep.done /\ "failed" \in DOMAIN lastSweep) =>
    /\ lastSweep.total = Cardinality(lastSweep.pending)
    /\ lastSweep.skipped = Cardinality(lastSweep.pending \ lastSweep.due)
    /\ lastSweep.processed = Cardinality(lastSweep.due \ lastSweep.failed)
    /\ \A i \in lastSweep.due \ lastSweep.failed :
         /\ lastSweep.after[i].status = "WAITING"
         /\ lastSweep.after[i].botHandoffAt = lastSweep.at

\* a sweep promoted the second pending conversation after the promotion of
\* the first had failed
C27_Witness ==
  /\ lastSweep.done
  /\ "failed" \in DOMAIN lastSweep
  /\ lastSweep.failed = {1}
  /\ lastSweep.promoted = {2}
  /\ lastSweep.processed = 1
  /\ lastSweep.total = 2

\* the conversation of row n was marked outside the working hours and is
\* still with the bot
Pending(n) ==
  /\ n \in 1..Len(conversations)
  /\ conversations[n].status = "BOT"
  /\ conversations[n].botHandoffReason = OFF_HOURS_PENDING

\* the last minute of the day in which the sweep takes the shift of a region
\* as beginning: five minutes after its start, or the last minute of the day
WindowEnd(regionId) ==
  IF MinutesOf(getWorkingHours(regionId).start) + 5 < MinutesPerDay
  THEN MinutesOf(getWorkingHours(regionId).start) + 5
  ELSE MinutesPerDay - 1

\* in the minute after the window of a working day of the region, before
\* the sweep of that minute, the last sweep ran inside the window
SweepFellInWindow(regionId) ==
  (/\ now % MinutesPerDay = (WindowEnd(regionId) + 1) % MinutesPerDay
   /\ DayOfWeek(now - 1) \in Range(getWorkingHours(regionId).workDays)
   /\ ~ (lastSweep.done /\ lastSweep.at = now))
    => /\ lastSweep.done
       /\ lastSweep.at % MinutesPerDay
            >= MinutesOf(getWorkingHours(regionId).start)

\* C28 as stated: with a sweep every five minutes, every conversation that
\* is pending is promoted in the end, and a sweep falls in the window after
\* the start of each shift whatever the working hours of the region.  The
\* window of a shift that starts after 23:54 ends at midnight and is shorter
\* than the interval of the timer: the statement is violated.
C28_SweepMeetsEveryWindow ==
  /\ \A n \in 1..Len(TimerUsers) :
       Pending(n) ~> (conversations[n].status = "WAITING")
  /\ [](\A regionId \in TimerRegions : SweepFellInWindow(regionId))

\* what holds in its place: with a sweep every five minutes, every
\* conversation that is pending is promoted in the end, by the first sweep
\* that finds it; a sweep falls in the window after the start of a shift that
\* starts at 23:54 or earlier.
C28_PendingPromotedInTheEnd ==
  /\ \A n \in 1..Len(TimerUsers) :
       Pending(n) ~> (conversations[n].status = "WAITING")
  /\ [](\A n \in 1..Len(TimerUsers) : lastSweep.done => ~ Pending(n))
  /\ [](\A regionId \in TimerRegions :
          MinutesOf(getWorkingHours(regionId).start) + 5 < MinutesPerDay
            => SweepFellInWindow(regionId))

\* the minute after the window of the first region with a sweep inside the
\* window, the conversation of the other region promoted before the start
\* of its shift
PromotedBeforeShift ==
  /\ now % MinutesPerDay = WindowEnd(DefaultRegion) + 1
  /\ lastSweep.done
  /\ lastSweep.at < now
  /\ lastSweep.at % MinutesPerDay >= MinutesOf(RegionWorkingHours.start)
  /\ \E n \in 1..Len(conversations) :
       /\ conversations[n].regionId = LateRegion
       /\ conversations[n].status = "WAITING"
       /\ conversations[n].botHandoffAt % MinutesPerDay
            < MinutesOf(LateWorkingHours.start)

(***************************************************************************)
(* Properties of the transfer of a conversation.                           *)
(***************************************************************************)

\* a step added a transfer message to the conversation of row n
Transferred(n) ==
  /\ n \in 1..Len(conversations)
  /\ Cardinality(Transfers(messages'[n])) > Cardinality(Transfers(messages[n]))

\* the columns of a conversation a transfer has no business with
Untransferred(conv) ==
  [id |-> conv.id, customerId |-> conv.customerId,
   regionId |-> conv.regionId, status |-> conv.status,
   priority |-> conv.priority, botHandoffReason |-> conv.botHandoffReason,
   botHandoffAt |-> conv.botHandoffAt, createdAt |-> conv.createdAt,
   closedAt |-> conv.closedAt]

\* C29: a transfer changes the assigned agent of the conversation and adds
\* one transfer message to it; the status, the priority and the time of
\* the handoff stay as they are, an assigned conversation stays assigned,
\* and no other conversation changes.
C29_TransferChangesAgentOnly ==
  [][\A n \in 1..MaxConversations :
       Transferred(n)
         => /\ Untransferred(conversations'[n]) = Untransferred(conversations[n])
            /\ conversations'[n].assignedAgentId \in DeskAgents
            /\ messages'[n]
                 = Append(messages[n], Message("BOT", <<TransferMessage>>))
            /\ \A i \in 1..Len(conversations) \ {n} :
                 /\ conversations'[i] = conversations[i]
                 /\ messages'[i] = messages[i]
            /\ Len(conversations') = Len(conversations)]_vars

\* an assigned conversation that was transferred to the other agent
C29_Witness ==
  \E n \in 1..Len(conversations) :
    /\ conversations[n].status = "ASSIGNED"
    /\ conversations[n].assignedAgentId = "agent-2"
    /\ conversations[n].priority = 3
    /\ conversations[n].botHandoffAt # NullTime
    /\ Cardinality(Transfers(messages[n])) = 1

(***************************************************************************)
(* Properties of the priority of a conversation.                           *)
(***************************************************************************)

\* C30 as stated: the priority of a conversation is always between 1 and 5
\* and never decreases, also when the VIP level of the customer changed
\* between two escalations.  A handoff writes the priority of the VIP level
\* of the moment over the one the conversation has: the statement is
\* violated.
C30_PriorityNeverDecreases ==
  [][\A n \in 1..Len(conversations) :
       /\ conversations'[n].priority \in 1..5
       /\ conversations'[n].priority >= conversations[n].priority]_vars

\* the place of the entry of identifier id in the corpus as loaded, 0 when absent
CorpusIndex(id) ==
  IF \E i \in 1..Len(faqData) : faqData[i].id = id
  THEN CHOOSE i \in 1..Len(faqData) : faqData[i].id = id ELSE 0

\* the entries of the corpus that score above zero for the query
Matching(query) == {i \in 1..Len(faqData) : FaqScore(faqData[i], query) > 0}

\* entry i of the corpus ranks before entry j for the query
RanksBefore(query, i, j) ==
  \/ FaqScore(faqData[i], query) > FaqScore(faqData[j], query)
  \/ FaqScore(faqData[i], query) = FaqScore(faqData[j], query) /\ i < j

\* what the search of the turn must have returned
RankedFirst(query, maxResults, faqs) ==
  /\ Len(faqs) = Min({maxResults, Cardinality(Matching(query))})
  /\ \A k \in 1..Len(faqs) :
       /\ CorpusIndex(faqs[k].faq.id) \in Matching(query)
       /\ faqs[k].faq = faqData[CorpusIndex(faqs[k].faq.id)]
       /\ faqs[k].score = FaqScore(faqs[k].faq, query)
       /\ \A i \in Matching(query) :
            RanksBefore(query, i, CorpusIndex(faqs[k].faq.id))
              => \E h \in 1..(k - 1) : faqs[h].faq.id = faqData[i].id

\* C31: searchFAQ returns exactly the entries of score above zero, highest
\* score first, entries of equal score in the order of the corpus, cut to
\* the first maxResults; a second call returns the same sequence
C31_SearchRankedAndRepeatable ==
  (lastTurn.done /\ "faqs" \in DOMAIN lastTurn)
    => /\ RankedFirst(lastTurn.userMessage, lastTurn.maxResults, lastTurn.faqs)
       /\ lastTurn.again = lastTurn.faqs

\* a search that found two entries of the same score and a third one, cut
\* to two results
C31_Witness ==
  /\ lastTurn.done /\ "faqs" \in DOMAIN lastTurn
  /\ lastTurn.maxResults = 2
  /\ Cardinality(Matching(lastTurn.userMessage)) = 3
  /\ Len(lastTurn.faqs) = 2
  /\ \E i, j \in Matching(lastTurn.userMessage) :
       i # j /\ FaqScore(faqData[i], lastTurn.userMessage) = FaqScore(faqData[j], lastTurn.userMessage)

\* every merged entity of the turn is in the collected information
CollectedAll(turn) ==
  \A k \in DOMAIN turn.result.entities :
    /\ k \in DOMAIN turn.after.collectedInfo
    /\ turn.after.collectedInfo[k] = turn.result.entities[k]

\* C32: after a successful turn the dialogue state is the one of the turn
\* (its intent, the awaitingInfo returned, every merged entity collected,
\* asked now) when the handler returned a non-empty awaitingInfo, absent
\* when it returned conversationComplete instead, and otherwise what it was
\* before the turn, lastAskedAt included
C32_StateUpdateOfTurn ==
  (lastTurn.done /\ "result" \in DOMAIN lastTurn /\ lastTurn.result.success)
    => IF Len(lastTurn.response.awaitingInfo) > 0
       THEN /\ lastTurn.after.open
            /\ lastTurn.after.currentIntent = lastTurn.result.intent
            /\ lastTurn.after.awaitingInfo = lastTurn.response.awaitingInfo
            /\ CollectedAll(lastTurn)
            /\ lastTurn.after.lastAskedAt = lastTurn.at
       ELSE IF lastTurn.response.conversationComplete
       THEN lastTurn.after = NoState
       ELSE lastTurn.after = lastTurn.before

\* a turn under another intent than the one of the open dialogue state whose
\* handler asked for more
C32_Witness ==
  /\ lastTurn.done /\ "result" \in DOMAIN lastTurn /\ lastTurn.result.success
  /\ lastTurn.before.open
  /\ Len(lastTurn.response.awaitingInfo) > 0
  /\ lastTurn.result.intent # lastTurn.before.currentIntent
  /\ lastTurn.at > lastTurn.before.lastAskedAt
  /\ DOMAIN lastTurn.result.entities # {}

\* the sweep notice is the last message of a conversation
NoticeAdded(before, after) ==
  after = Append(before, Message("BOT", <<SweepNotice>>))

\* C33: a run of the sweep that promotes a conversation makes it WAITING
\* with the priority of the VIP level of its customer and the moment of the
\* run as handoff time, and adds the sweep notice, once, to its messages;
\* every other conversation keeps its row and its messages as they were
C33_PromotionWritesRowAndNotice ==
  [][Sweep =>
       \A i \in 1..Len(conversations) :
         IF conversations[i].status = "BOT" /\ conversations'[i].status # "BOT"
         THEN /\ conversations'[i] =
                   [conversations[i] EXCEPT
                      !.status = "WAITING",
                      !.priority = getPriorityByVipLevel(vipLevel[conversations[i].customerId]),
                      !.botHandoffAt = now]
              /\ NoticeAdded(messages[i], messages'[i])
         ELSE /\ conversations'[i] = conversations[i]
              /\ messages'[i] = messages[i]]_vars

\* a sweep promoted the conversation of a customer of VIP level 4 and left
\* another conversation alone
C33_Witness ==
  /\ lastSweep.done /\ "promoted" \in DOMAIN lastSweep
  /\ \E i \in lastSweep.promoted :
       /\ vipLevel[conversations[i].customerId] = 4
       /\ conversations[i].status = "WAITING"
       /\ conversations[i].priority = 5
       /\ conversations[i].botHandoffAt = lastSweep.at
       /\ messages[i][Len(messages[i])] = Message("BOT", <<SweepNotice>>)
  /\ \E j \in 1..Len(conversations) : j \notin lastSweep.promoted

\* rows i and j wait with the same priority in the same region
WaitTogether(convs, i, j) ==
  /\ convs[i].status = "WAITING" /\ convs[j].status = "WAITING"
  /\ convs[i].regionId = convs[j].regionId
  /\ convs[i].priority = convs[j].priority

\* C34 as stated: a conversation that waits keeps its place among the
\* waiting conversations of its priority; a later message of its customer
\* that again asks for a human does not put it behind a conversation handed
\* off after it.  handoffToHuman writes botHandoffAt again on every call:
\* the statement is violated.
C34_PlaceNeverWorse ==
  [][\A i, j \in 1..Len(conversations) :
       (/\ WaitTogether(conversations, i, j)
        /\ WaitTogether(conversations', i, j)
        /\ conversations[i].botHandoffAt < conversations[j].botHandoffAt)
         => ~ (conversations'[j].botHandoffAt < conversations'[i].botHandoffAt)]_vars

\* a message of the customer was stored in conversation n by the step
CustomerWrote(n) ==
  /\ n \in 1..Len(conversations)
  /\ Cardinality(CustomerMessages(messages'[n])) > Cardinality(CustomerMessages(messages[n]))

\* C35: a message of the customer of a conversation that is ASSIGNED is
\* stored and nothing else happens: no turn of the router, no reply of the
\* bot, no handoff; the row (status, priority, handoff fields) and the
\* dialogue state of the session are as before
C35_AssignedOnlyStores ==
  [][\A n \in 1..Len(conversations) :
       (conversations[n].status = "ASSIGNED" /\ CustomerWrote(n))
         => /\ \E m \in LineMessages :
                 messages'[n] = Append(messages[n], Message("CUSTOMER", m))
            /\ conversations' = conversations
            /\ sessions' = sessions
            /\ lastTurn' = lastTurn
            /\ markedAt' = markedAt
            /\ lastEvent'.handledByAgent]_vars

\* the customer of an assigned conversation wrote: the message is the last
\* one of the conversation, after the welcome of the agent or the reply of
\* the bot
C35_Witness ==
  /\ lastEvent.done /\ "handledByAgent" \in DOMAIN lastEvent
  /\ lastEvent.handledByAgent
  /\ conversations[lastEvent.row].status = "ASSIGNED"
  /\ messages[lastEvent.row][Len(messages[lastEvent.row])].senderType = "CUSTOMER"
  /\ Cardinality(CustomerMessages(messages[lastEvent.row])) = 2

\* the step is a turn of the router that ended in the error reply
FailedTurn ==
  /\ lastTurn' # lastTurn
  /\ lastTurn'.done /\ "result" \in DOMAIN lastTurn'
  /\ ~ lastTurn'.result.success

\* C36: a turn that ends in the error reply leaves the session as it was:
\* the entities, the dialogue state and the history it held before the turn
\* are the ones it holds after it; a session that did not exist is at most
\* created empty
C36_FailedTurnKeepsSession ==
  [][FailedTurn =>
       IF lastTurn'.sessionId \in DOMAIN sessions
       THEN SessionView(sessions', lastTurn'.sessionId) = SessionView(sessions, lastTurn'.sessionId)
       ELSE lastTurn'.sessionId \in DOMAIN sessions'
              => sessions'[lastTurn'.sessionId] = NewSession]_vars

\* a turn failed in a session that holds entities, an open dialogue state
\* and the history of an earlier turn
C36_Witness ==
  /\ lastTurn.done /\ "result" \in DOMAIN lastTurn
  /\ ~ lastTurn.result.success
  /\ lastTurn.before.open
  /\ lastTurn.sessionId \in DOMAIN sessions
  /\ sessions[lastTurn.sessionId].conversationState = lastTurn.before
  /\ DOMAIN sessions[lastTurn.sessionId].entities # {}
  /\ Len(sessions[lastTurn.sessionId].history) = 2

\* C37 as stated: the sweep changes only conversations that are BOT and
\* marked OFF_HOURS_PENDING at the moment it writes; a conversation handed
\* off, accepted or closed after the sweep read it is not set back to
\* WAITING.  The update of the sweep names the row by its id only: the
\* statement is violated.
C37_SweepWritesPendingOnly ==
  [][\A k \in 1..Len(awaits) :
       SweepWrites(k) =>
         \A i \in 1..Len(conversations) :
           conversations'[i] # conversations[i]
             => /\ conversations[i].status = "BOT"
                /\ conversations[i].botHandoffReason = OFF_HOURS_PENDING]_vars

\* C38 as stated: the queue position of every waiting conversation is its
\* place, counted from 1, in the queue the agents of its region are shown,
\* so that the positions of n waiting conversations are 1..n without
\* duplicates.  The listing orders equal priorities by createdAt, the
\* position counts earlier botHandoffAt, and two conversations handed off at
\* the same time have the same position: the statement is violated.
C38_PositionIsQueueIndex ==
  (lastQueue.done /\ "queue" \in DOMAIN lastQueue)
    => \A i \in 1..Len(lastQueue.queue) :
         getQueuePosition(lastQueue.queue, i) = i

\* the accepts of conversation n that were answered with success
Accepted(n) ==
  {k \in InFlight("accept") : awaits[k].row = n /\ awaits[k].result = "OK"}

\* the welcome messages of conversation n
Welcomes(n) ==
  {i \in 1..Len(messages[n]) : messages[n][i] = Message("AGENT", <<WelcomeMessage>>)}

\* C39 as stated: of two agents who accept the same waiting conversation at
\* the same time one succeeds and the other is answered InvalidStatus, and
\* the customer gets one welcome message.  Both requests read WAITING before
\* either writes, and the update names the row by its id only: the
\* statement is violated.
C39_OneAcceptSucceeds ==
  \A n \in 1..Len(conversations) :
    /\ Cardinality(Accepted(n)) <= 1
    /\ Cardinality(Welcomes(n)) <= 1

\* C40 as stated: a customer has at most one conversation that is not
\* closed, also when two of its messages are handled at the same time.  Both
\* events find no open conversation before either creates one: the
\* statement is violated.
C40_OneOpenConversation ==
  \A u \in LineUsers : Cardinality(OpenConversations(conversations, u)) <= 1

====
